---- MODULE Spec2Model ----
(***************************************************************************)
(* Verification model of the binanceBOT trading engine.                    *)
(*                                                                         *)
(*   Spec      the bot lifecycle supervisor (StrategyManager) with the     *)
(*             kill-switch subscriber (RedisEventBus) and the proxy pool.  *)
(*   SpecGrid  one GridStrategy instance with its tick handler, its        *)
(*             order-update handler, the analysis task and the exchange.   *)
(*   SpecPanic     panic_close of a strategy beside its tick handler.      *)
(*   SpecAgg       the stream aggregator: registries, readers, dispatch.   *)
(*   SpecAnalyzer  the market analyzer: regime, confirmation, cooling.     *)
(*   SpecRetry     the retry wrapper around the exchange operations.       *)
(*   SpecRetryLive the same, with every await of the wrapper ending.       *)
(*   SpecBucket    the rate limiter: token buckets, their locks, time.     *)
(*   SpecGen       generateGrid in decimal arithmetic on any settings.     *)
(*   SpecBalance   the client's balance snapshot and getFreeBalance.       *)
(*   SpecAdjust    the adjustment analyze emits for arbitrary indicators.  *)
(*                                                                         *)
(* Coroutines are cut at their suspension points (await); the code between *)
(* two suspension points is one atomic step, as on an asyncio event loop.  *)
(***************************************************************************)
EXTENDS Integers, Sequences, FiniteSets, TLC

(***************************************************************************)
(* Bounds of the model.                                                    *)
(***************************************************************************)
NumBots == 2
MaxStarts == 2
MaxStops == 1
MaxHalts == 1

Bots == 1..NumBots
\* One index per start_bot invocation; a start that succeeds owns the
\* supervisor task, the strategy and the client of the same index.
Calls == 1..MaxStarts
StopCalls == 1..MaxStops
ProxyPool == {"proxy_a"}

(***************************************************************************)
(* Configuration of the strategy instance (GridSettingsProxy) and of its   *)
(* client. Prices and amounts are in quote units, multipliers in tenths,   *)
(* percentages in percent. Time is counted in units of 2.5 s: the sleeps   *)
(* of 0.15 s and 0.2 s end within the unit they begin in, the responses of *)
(* the exchange take any time. The grid is 20, 30, 40, 50, 60.             *)
(***************************************************************************)
gridLowerPrice == 20
gridUpperPrice == 60
gridCount == 4
gridInvestmentPerGrid == 120
maxOrderCount == 2
stopLossPercent == 10
takeProfitAmount == 30
martinMultiplier == 15
maxMartinLevels == 2
\* BALANCE_STALE_TIMEOUT (60 s) in units of 30 s
BALANCE_STALE_TIMEOUT == 2
\* _cooldownSeconds (tradeCooldown, 5.0 s) in time units
cooldownSeconds == 2
\* BinanceClient._quantityPrecision and _minNotional
quantityPrecision == 2
minNotional == 10

\* Bounds of the strategy model: limit orders submitted and adjustments
\* delivered by the analysis task in one behaviour.
MaxOrders == 3
MaxAnalyses == 1
\* Bounds of the aggregator model: reader tasks created and frames received.
MaxReaders == 2
MaxFrames == 2
\* Bounds of the rate limiter model: callers of acquire, cancelled callers
\* and the capacities of the two buckets in tokens.
NumCallers == 3
MaxCancels == 1
weightCapacity == 2
orderCapacity == 1
\* Bounds of the decimal model: the significant digits of the context (28 in
\* the program), the largest digit of a grid bound and the largest grid count.
DecimalPrec == 3
MaxGridBound == 9
MaxGridCount == 4

QtyScale == 10 ^ quantityPrecision
\* The prices the trade stream delivers: the stop price, a price inside the
\* grid and a price above it.
TickPrices == {18, 45, 65}
\* The prices an order book entry can have.
OrderPrices == gridLowerPrice..(gridUpperPrice + (gridUpperPrice - gridLowerPrice) \div gridCount)

VARIABLES
    \* ---- StrategyManager / RedisEventBus / ProxyScheduler ----
    active_bots,        \* _active_bots: bot_id -> {task, proxy, is_auto_proxy}
    start_calls,        \* the start_bot invocations and where each one is
    nStarts,            \* number of start_bot invocations so far
    tasks,              \* the supervisor tasks (_run_bot_loop), one per successful start
    strategy_running,   \* GridStrategy._running of the strategy of each start
    stop_calls,         \* the stop_bot invocations made by the admin API
    nStops,
    pool,               \* ProxyScheduler._pool: proxy -> load count
    halt,               \* the kill-switch handler (_handle_kill_switch_event)
    \* ---- one GridStrategy instance ----
    adaptiveMode,       \* settings.adaptiveMode
    started,            \* initialize() has been called
    running,            \* _running
    lastPrice,          \* _lastPrice
    currentAdjustment,  \* _currentAdjustment (NoAdjustment for None)
    orders,             \* _orders: price -> GridOrder
    realizedProfit,     \* _realizedProfit, in 1/QtyScale quote units
    martinLevel,        \* _martinLevel
    tradeAge,           \* time.time() - _lastTradeTime, saturating at cooldownSeconds
    tick,               \* the on_price_update invocation in progress
    ord,                \* the on_order_update invocation in progress
    \* ---- observation of the strategy ----
    nOrders,            \* limit orders submitted so far
    nAnalyses,          \* adjustments delivered so far
    submitAge,          \* time since the latest limit-order submission, saturating
    tickLog,            \* what the latest tick did
    exited,             \* _emergencyExit has run
    \* ---- GridStrategy.panic_close ----
    panic,              \* the panic_close invocation and what it did
    \* ---- StreamAggregator ----
    market_subscriptions,   \* _market_subscriptions: key -> {callbacks, task}
    user_subscriptions,     \* _user_subscriptions: api_key_id -> {callbacks, task}
    readers,            \* the reader tasks created so far
    nReaders,
    aggCall,            \* the unsubscribe_user_data call that holds _lock in its await
    nFrames,            \* frames received so far
    cbTasks,            \* the callback tasks that have not ended, in creation order
    handled,            \* per callback: the events whose handling is complete, in order
    dispatched,         \* per frame: the callbacks it was handed to
    \* ---- MarketAnalyzer ----
    current_state,      \* AsymmetricStateController.current_state
    state_buffer,       \* AsymmetricStateController.state_buffer
    coolingRemaining,   \* MarketAnalyzer._coolingRemaining
    lastEval,           \* the latest call of analyze() and what it returned
    prevRaw,            \* the raw regime of the evaluation before the latest one
    exitAge,            \* evaluations since the one that left a danger regime
    \* ---- retryOnError ----
    retry,              \* the wrapper invocation in progress and what it has done
    \* ---- RateLimiter / TokenBucket ----
    bucket,             \* per TokenBucket: _tokens, time since _lastRefill, _lock
    acq,                \* the acquire() calls and where each one is
    \* ---- generateGrid on arbitrary settings ----
    gen,                \* the settings generateGrid was called with and the list it returned
    \* ---- BinanceClient balance snapshot (SpecBalance) ----
    snapshot,           \* _balances[asset] and _lastBalanceUpdate, as the age of the last update
    fb,                 \* the getFreeBalance call in progress and what it returned
    \* ---- MarketAnalyzer._generateAdjustment (SpecAdjust) ----
    emitted             \* the GridAdjustment the last _generateAdjustment call returned, with its inputs

supVars == <<active_bots, start_calls, nStarts, tasks, strategy_running,
             stop_calls, nStops, pool, halt>>

\* The state of the strategy object and of its two handlers.
strategyVars == <<adaptiveMode, started, running, lastPrice, currentAdjustment,
                  orders, realizedProfit, martinLevel, tradeAge, tick, ord>>

gridVars == <<adaptiveMode, started, running, lastPrice, currentAdjustment,
              orders, realizedProfit, martinLevel, tradeAge, tick, ord,
              nOrders, nAnalyses, submitAge, tickLog, exited>>

vars == <<active_bots, start_calls, nStarts, tasks, strategy_running,
          stop_calls, nStops, pool, halt,
          adaptiveMode, started, running, lastPrice, currentAdjustment,
          orders, realizedProfit, martinLevel, tradeAge, tick, ord,
          nOrders, nAnalyses, submitAge, tickLog, exited,
          panic,
          market_subscriptions, user_subscriptions, readers, nReaders, aggCall,
          nFrames, cbTasks, handled, dispatched,
          current_state, state_buffer, coolingRemaining, lastEval, prevRaw, exitAge,
          retry,
          bucket, acq,
          gen,
          snapshot, fb,
          emitted>>

panicVars == <<panic>>

aggVars == <<market_subscriptions, user_subscriptions, readers, nReaders, aggCall,
             nFrames, cbTasks, handled, dispatched>>

\* The variables outside the supervisor and the tick and order handlers.
anaVars == <<current_state, state_buffer, coolingRemaining, lastEval, prevRaw, exitAge>>

retryVars == <<retry>>

bucketVars == <<bucket, acq>>

genVars == <<gen>>

balVars == <<snapshot, fb>>

adjVars == <<emitted>>

extVars == <<panicVars, aggVars, anaVars, retryVars, bucketVars, genVars, balVars, adjVars>>

(***************************************************************************)
(* GridStrategy.initialize, as far as the supervisor sees it.              *)
(***************************************************************************)
\* [P4] Gap Check of initialize: the fetched price is outside the grid.
GapCheckFails(currentPrice) ==
    currentPrice > gridUpperPrice \/ currentPrice < gridLowerPrice

\* The outcome of initialize(): whether it raised, whether the strategy is
\* running after it, whether the gap check stopped it and whether the
\* bootstrap issued its market buy.
\*   restored     _loadState() found a state file
\*   needBuy      _bootstrapPosition found a base-asset shortfall
\*   buyOk        the bootstrap market order was sent and accepted
\* A restored strategy skips the gap check and the bootstrap. On a fresh
\* start _bootstrapPosition, once it has a shortfall, ends in a finally
\* clause that uses the undefined name lock_key: it raises NameError after
\* the market buy, and initialize() propagates it.
Initialize(restored, currentPrice, needBuy, buyOk) ==
    IF restored
    THEN [raised |-> FALSE, running |-> TRUE, gapStopped |-> FALSE, bootBuy |-> FALSE]
    ELSE IF GapCheckFails(currentPrice)
    THEN [raised |-> FALSE, running |-> FALSE, gapStopped |-> TRUE, bootBuy |-> FALSE]
    ELSE IF needBuy
    THEN [raised |-> TRUE, running |-> FALSE, gapStopped |-> FALSE, bootBuy |-> buyOk]
    ELSE [raised |-> FALSE, running |-> TRUE, gapStopped |-> FALSE, bootBuy |-> FALSE]

\* totalRequired of initialize, (gridInvestmentPerGrid * gridCount) * 1.002,
\* compared with the free USDT balance; both sides in thousandths.
BelowTotalRequired(freeBalance) ==
    freeBalance * 1000 < gridInvestmentPerGrid * gridCount * 1002

\* Free USDT balances getFreeBalance may report to initialize: just below
\* totalRequired and just above it.
InitBalances == {gridInvestmentPerGrid * gridCount, gridInvestmentPerGrid * gridCount + 1}

\* Prices getCurrentPrice() may return during initialize: below, inside and
\* above the grid.
InitPrices == {gridLowerPrice - 5, gridLowerPrice + 15, gridUpperPrice + 5}

(***************************************************************************)
(* Supervisor: initial state.                                              *)
(***************************************************************************)
NoEntry == [task |-> 0, proxy |-> "none", is_auto_proxy |-> FALSE]

NoCall == [bot |-> 0, pc |-> "unused", proxy |-> "none", is_auto_proxy |-> FALSE,
           ret |-> "none", outOfRange |-> FALSE, bootBuy |-> FALSE, lowBalance |-> FALSE]

NoTask == [pc |-> "none", must_cancel |-> FALSE, stopCalled |-> FALSE,
           disconnectCalled |-> FALSE, released |-> FALSE]

NoStop == [bot |-> 0, task |-> 0, pc |-> "unused", ret |-> "none"]

HaltIdle == [pc |-> "idle", targets |-> {}, todo |-> {}, waiting |-> {},
             received |-> 0, starting |-> {}]

InitSup ==
    /\ active_bots = [b \in Bots |-> NoEntry]
    /\ start_calls = [c \in Calls |-> NoCall]
    /\ nStarts = 0
    /\ tasks = [c \in Calls |-> NoTask]
    /\ strategy_running = [c \in Calls |-> FALSE]
    /\ stop_calls = [s \in StopCalls |-> NoStop]
    /\ nStops = 0
    /\ pool = [p \in ProxyPool |-> 0]
    /\ halt = HaltIdle

\* task.done()
TaskDone(t) == tasks[t].pc = "done"

\* bot_id in self._active_bots
IsActive(b) == active_bots[b].task # 0

(***************************************************************************)
(* ProxyScheduler                                                          *)
(***************************************************************************)
\* get_best_proxy: the candidates are the proxies of minimal load.
LeastLoaded == {p \in ProxyPool : \A q \in ProxyPool : pool[p] <= pool[q]}

\* release_proxy: decrement, never below zero; unknown proxies are ignored.
ReleaseProxy(pl, proxy) ==
    IF proxy \in ProxyPool
    THEN [pl EXCEPT ![proxy] = IF pl[proxy] > 0 THEN pl[proxy] - 1 ELSE 0]
    ELSE pl

(***************************************************************************)
(* StrategyManager.start_bot                                               *)
(***************************************************************************)
\* The duplicate check at the head of start_bot: the bot is registered and
\* its task is not done.
AlreadyRunning(b) == IsActive(b) /\ ~TaskDone(active_bots[b].task)

\* start_bot up to its first suspension point (the geo check): duplicate
\* check, zombie cleanup, proxy selection.
StartBotBegin(b, fixedProxy) ==
    /\ nStarts < MaxStarts
    /\ LET c == nStarts + 1 IN
       /\ nStarts' = c
       /\ IF AlreadyRunning(b)
          THEN /\ start_calls' = [start_calls EXCEPT ![c] =
                      [NoCall EXCEPT !.bot = b, !.pc = "returned", !.ret = "false"]]
               /\ UNCHANGED <<active_bots, pool>>
          ELSE /\ active_bots' = [active_bots EXCEPT ![b] = NoEntry]
               /\ IF fixedProxy
                  THEN /\ start_calls' = [start_calls EXCEPT ![c] =
                              [NoCall EXCEPT !.bot = b, !.pc = "geo", !.proxy = "config"]]
                       /\ pool' = pool
                  ELSE \E p \in LeastLoaded :
                       /\ pool' = [pool EXCEPT ![p] = @ + 1]
                       /\ start_calls' = [start_calls EXCEPT ![c] =
                              [NoCall EXCEPT !.bot = b, !.pc = "geo", !.proxy = p,
                                             !.is_auto_proxy = TRUE]]
    /\ UNCHANGED <<tasks, strategy_running, stop_calls, nStops, halt>>
    /\ UNCHANGED <<gridVars, extVars>>

\* geo_check_service.is_compliant returned.
StartBotGeo(c, is_ok) ==
    /\ start_calls[c].pc = "geo"
    /\ IF is_ok
       THEN /\ start_calls' = [start_calls EXCEPT ![c].pc = "connect"]
            /\ pool' = pool
       ELSE /\ start_calls' = [start_calls EXCEPT ![c].pc = "returned", ![c].ret = "false"]
            /\ pool' = IF start_calls[c].is_auto_proxy
                       THEN ReleaseProxy(pool, start_calls[c].proxy)
                       ELSE pool
    /\ UNCHANGED <<active_bots, nStarts, tasks, strategy_running, stop_calls, nStops, halt>>
    /\ UNCHANGED <<gridVars, extVars>>

\* client.connect() returned or raised; an exception ends start_bot in its
\* except clause, which returns False.
StartBotConnect(c, ok) ==
    /\ start_calls[c].pc = "connect"
    /\ start_calls' = IF ok
                      THEN [start_calls EXCEPT ![c].pc = "init"]
                      ELSE [start_calls EXCEPT ![c].pc = "returned", ![c].ret = "false"]
    /\ UNCHANGED <<active_bots, nStarts, tasks, strategy_running, stop_calls, nStops,
                   pool, halt>>
    /\ UNCHANGED <<gridVars, extVars>>

\* strategy.initialize() returned or raised; when it returned, start_bot
\* creates the task, registers the bot and returns True without suspending.
\* An initialize that gets past the gap check and the bootstrap reads the
\* free USDT balance (freeBalance), logs it beside totalRequired and goes on
\* to start().
StartBotInit(c, restored, currentPrice, needBuy, buyOk, freeBalance) ==
    /\ start_calls[c].pc = "init"
    /\ LET r == Initialize(restored, currentPrice, needBuy, buyOk)
           b == start_calls[c].bot
       IN
       IF r.raised
       THEN /\ start_calls' = [start_calls EXCEPT ![c].pc = "returned", ![c].ret = "false",
                                                  ![c].outOfRange = GapCheckFails(currentPrice),
                                                  ![c].bootBuy = r.bootBuy]
            /\ UNCHANGED <<active_bots, tasks, strategy_running>>
       ELSE /\ start_calls' = [start_calls EXCEPT ![c].pc = "returned", ![c].ret = "true",
                                                  ![c].outOfRange = GapCheckFails(currentPrice),
                                                  ![c].bootBuy = r.bootBuy,
                                                  ![c].lowBalance =
                                                      ~r.gapStopped /\ BelowTotalRequired(freeBalance)]
            /\ strategy_running' = [strategy_running EXCEPT ![c] = r.running]
            /\ tasks' = [tasks EXCEPT ![c].pc = "created"]
            /\ active_bots' = [active_bots EXCEPT ![b] =
                   [task |-> c, proxy |-> start_calls[c].proxy,
                    is_auto_proxy |-> start_calls[c].is_auto_proxy]]
    /\ UNCHANGED <<nStarts, stop_calls, nStops, pool, halt>>
    /\ UNCHANGED <<gridVars, extVars>>

(***************************************************************************)
(* StrategyManager._run_bot_loop: the supervisor task.                     *)
(*   created     scheduled, its coroutine has not run yet                  *)
(*   gather      awaiting the two stream readers                           *)
(*   stop        in the finally clause, suspended inside strategy.stop()   *)
(*   disconnect  in the finally clause, suspended in client.disconnect()   *)
(*   done                                                                  *)
(* must_cancel is set by Task.cancel(): the next step of the task raises   *)
(* CancelledError at the point where it is suspended.                      *)
(***************************************************************************)
\* The first step of the task: it reaches the gather.
TaskStart(t) ==
    /\ tasks[t].pc = "created"
    /\ ~tasks[t].must_cancel
    /\ tasks' = [tasks EXCEPT ![t].pc = "gather"]
    /\ UNCHANGED <<active_bots, start_calls, nStarts, strategy_running, stop_calls,
                   nStops, pool, halt>>
    /\ UNCHANGED <<gridVars, extVars>>

\* Entry of the finally clause: strategy.stop() is called; it sets
\* _running = False at once and suspends only when an analysis task exists
\* (adaptive mode). Without suspension the clause goes on to
\* client.disconnect(), which suspends in close_connection().
EnterCleanup(t, adaptive) ==
    /\ strategy_running' = [strategy_running EXCEPT ![t] = FALSE]
    /\ tasks' = IF adaptive
                THEN [tasks EXCEPT ![t].pc = "stop", ![t].must_cancel = FALSE,
                                   ![t].stopCalled = TRUE]
                ELSE [tasks EXCEPT ![t].pc = "disconnect", ![t].must_cancel = FALSE,
                                   ![t].stopCalled = TRUE, ![t].disconnectCalled = TRUE]

\* A stream reader raised: the exception is logged and the finally clause runs.
TaskStreamFail(t, adaptive) ==
    /\ tasks[t].pc = "gather"
    /\ ~tasks[t].must_cancel
    /\ EnterCleanup(t, adaptive)
    /\ UNCHANGED <<active_bots, start_calls, nStarts, stop_calls, nStops, pool, halt>>
    /\ UNCHANGED <<gridVars, extVars>>

\* CancelledError is raised in the task where it is suspended.
\*   created     the coroutine never runs: no finally clause is entered
\*   gather      except CancelledError: raise; the finally clause runs
\*   stop        strategy.stop() swallows it (except CancelledError: pass)
\*               and returns; the finally clause goes on to disconnect
\*   disconnect  "except Exception" does not catch it: the rest of the
\*               finally clause (pop from _active_bots, release_proxy) is skipped
TaskCancelled(t, adaptive) ==
    /\ tasks[t].must_cancel
    /\ tasks[t].pc \in {"created", "gather", "stop", "disconnect"}
    /\ CASE tasks[t].pc = "created" ->
              /\ tasks' = [tasks EXCEPT ![t].pc = "done", ![t].must_cancel = FALSE]
              /\ UNCHANGED strategy_running
         [] tasks[t].pc = "gather" -> EnterCleanup(t, adaptive)
         [] tasks[t].pc = "stop" ->
              /\ tasks' = [tasks EXCEPT ![t].pc = "disconnect", ![t].must_cancel = FALSE,
                                        ![t].disconnectCalled = TRUE]
              /\ UNCHANGED strategy_running
         [] tasks[t].pc = "disconnect" ->
              /\ tasks' = [tasks EXCEPT ![t].pc = "done", ![t].must_cancel = FALSE]
              /\ UNCHANGED strategy_running
    /\ UNCHANGED <<active_bots, start_calls, nStarts, stop_calls, nStops, pool, halt>>
    /\ UNCHANGED <<gridVars, extVars>>

\* strategy.stop() returned (or raised an Exception, which is logged);
\* client.disconnect() is called.
TaskStopReturns(t) ==
    /\ tasks[t].pc = "stop"
    /\ ~tasks[t].must_cancel
    /\ tasks' = [tasks EXCEPT ![t].pc = "disconnect", ![t].disconnectCalled = TRUE]
    /\ UNCHANGED <<active_bots, start_calls, nStarts, strategy_running, stop_calls,
                   nStops, pool, halt>>
    /\ UNCHANGED <<gridVars, extVars>>

\* client.disconnect() returned (or raised an Exception, which is logged):
\* whatever entry _active_bots holds for this bot_id is popped and its
\* auto-assigned proxy released.
TaskCleanupEnd(t) ==
    /\ tasks[t].pc = "disconnect"
    /\ ~tasks[t].must_cancel
    /\ LET b == start_calls[t].bot
           e == active_bots[b]
       IN
       IF IsActive(b)
       THEN /\ active_bots' = [active_bots EXCEPT ![b] = NoEntry]
            /\ pool' = IF e.is_auto_proxy THEN ReleaseProxy(pool, e.proxy) ELSE pool
            /\ tasks' = [tasks EXCEPT ![t].pc = "done",
                                      ![e.task].released = e.is_auto_proxy]
       ELSE /\ tasks' = [tasks EXCEPT ![t].pc = "done"]
            /\ UNCHANGED <<active_bots, pool>>
    /\ UNCHANGED <<start_calls, nStarts, strategy_running, stop_calls, nStops, halt>>
    /\ UNCHANGED <<gridVars, extVars>>

(***************************************************************************)
(* StrategyManager.stop_bot                                                *)
(***************************************************************************)
\* Task.cancel(): no effect on a task that is done.
CancelTask(ts, t) ==
    IF ts[t].pc = "done" THEN ts ELSE [ts EXCEPT ![t].must_cancel = TRUE]

\* stop_bot called by the admin API, up to "await task".
StopBotBegin(b) ==
    /\ nStops < MaxStops
    /\ LET s == nStops + 1 IN
       /\ nStops' = s
       /\ IF IsActive(b)
          THEN /\ stop_calls' = [stop_calls EXCEPT ![s] =
                      [bot |-> b, task |-> active_bots[b].task, pc |-> "await",
                       ret |-> "none"]]
               /\ tasks' = CancelTask(tasks, active_bots[b].task)
          ELSE /\ stop_calls' = [stop_calls EXCEPT ![s] =
                      [bot |-> b, task |-> 0, pc |-> "returned", ret |-> "false"]]
               /\ tasks' = tasks
    /\ UNCHANGED <<active_bots, start_calls, nStarts, strategy_running, pool, halt>>
    /\ UNCHANGED <<gridVars, extVars>>

\* "await task" returns once the task is done; stop_bot returns True.
StopBotReturn(s) ==
    /\ stop_calls[s].pc = "await"
    /\ TaskDone(stop_calls[s].task)
    /\ stop_calls' = [stop_calls EXCEPT ![s].pc = "returned", ![s].ret = "true"]
    /\ UNCHANGED <<active_bots, start_calls, nStarts, tasks, strategy_running, nStops,
                   pool, halt>>
    /\ UNCHANGED <<gridVars, extVars>>

(***************************************************************************)
(* RedisEventBus._handle_kill_switch_event and stop_all_bots               *)
(***************************************************************************)
\* A HALT_ALL message is taken from the channel: stop_all_bots lists the
\* active ids and hands one stop_bot coroutine per id to asyncio.gather.
\* With no active bot stop_all_bots returns at once. halt.starting records
\* the start_bot calls that are suspended at that moment.
KillSwitchReceive ==
    /\ halt.pc \in {"idle", "alerted"}
    /\ halt.received < MaxHalts
    /\ LET ids == {b \in Bots : IsActive(b)} IN
       halt' = [pc |-> IF ids = {} THEN "broadcast" ELSE "stopping",
                targets |-> {active_bots[b].task : b \in ids},
                todo |-> ids, waiting |-> {},
                received |-> halt.received + 1,
                starting |-> {c \in Calls : start_calls[c].pc \in {"geo", "connect", "init"}}]
    /\ UNCHANGED <<active_bots, start_calls, nStarts, tasks, strategy_running,
                   stop_calls, nStops, pool>>
    /\ UNCHANGED <<gridVars, extVars>>

\* One of the gathered stop_bot coroutines runs up to its "await task"
\* (or returns False when the bot is no longer registered).
\* A task that was registered when the message was taken has run its first
\* step by now: the event loop runs callbacks in the order they were
\* scheduled, and the gathered coroutines were scheduled after it.
HaltStopBegin(b) ==
    /\ halt.pc = "stopping"
    /\ b \in halt.todo
    /\ IsActive(b) /\ active_bots[b].task \in halt.targets
          => tasks[active_bots[b].task].pc # "created"
    /\ IF IsActive(b)
       THEN /\ tasks' = CancelTask(tasks, active_bots[b].task)
            /\ halt' = [halt EXCEPT !.todo = @ \ {b},
                                    !.waiting = @ \cup {active_bots[b].task}]
       ELSE /\ tasks' = tasks
            /\ halt' = [halt EXCEPT !.todo = @ \ {b}]
    /\ UNCHANGED <<active_bots, start_calls, nStarts, strategy_running, stop_calls,
                   nStops, pool>>
    /\ UNCHANGED <<gridVars, extVars>>

\* A gathered stop_bot returns True when the task it awaits is done.
HaltStopReturn(t) ==
    /\ halt.pc = "stopping"
    /\ t \in halt.waiting
    /\ TaskDone(t)
    /\ halt' = [halt EXCEPT !.waiting = @ \ {t}]
    /\ UNCHANGED <<active_bots, start_calls, nStarts, tasks, strategy_running,
                   stop_calls, nStops, pool>>
    /\ UNCHANGED <<gridVars, extVars>>

\* The gather of stop_all_bots is complete: stop_all_bots returns.
StopAllBotsReturn ==
    /\ halt.pc = "stopping"
    /\ halt.todo = {}
    /\ halt.waiting = {}
    /\ halt' = [halt EXCEPT !.pc = "broadcast"]
    /\ UNCHANGED <<active_bots, start_calls, nStarts, tasks, strategy_running,
                   stop_calls, nStops, pool>>
    /\ UNCHANGED <<gridVars, extVars>>

\* ws_hub.broadcast of the SYSTEM_ALERT.
HaltBroadcast ==
    /\ halt.pc = "broadcast"
    /\ halt' = [halt EXCEPT !.pc = "alerted"]
    /\ UNCHANGED <<active_bots, start_calls, nStarts, tasks, strategy_running,
                   stop_calls, nStops, pool>>
    /\ UNCHANGED <<gridVars, extVars>>

(***************************************************************************)
(* GridStrategy: the grid, the adjustments and the order book.             *)
(***************************************************************************)
\* The base step (upper - lower) / count.
baseStep == (gridUpperPrice - gridLowerPrice) \div gridCount

\* generateGrid: gridCount + 1 prices from lower to upper. The sequence is
\* indexed from 1, the list of the code from 0.
generateGrid == [i \in 1..(gridCount + 1) |-> gridLowerPrice + baseStep * (i - 1)]

gridPrices == generateGrid

\* GridAdjustment: densityMultiplier and investmentMultiplier in tenths.
\* NoAdjustment stands for _currentAdjustment = None.
NoAdjustment == [densityMultiplier |-> 0, investmentMultiplier |-> 0, shouldPause |-> FALSE]

\* The static adjustment _evaluateGridOrders injects when adaptive mode is off.
DefaultAdjustment == [densityMultiplier |-> 10, investmentMultiplier |-> 10, shouldPause |-> FALSE]

\* Adjustments of the analyzer: the default one, panic sell-off in a bull
\* market (density 0.5, investment 1.8) and slow bleed (density 0.6,
\* investment 0.5, pause).
AnalyzerAdjustments ==
    { [densityMultiplier |-> 10, investmentMultiplier |-> 10, shouldPause |-> FALSE],
      [densityMultiplier |-> 5, investmentMultiplier |-> 18, shouldPause |-> FALSE],
      [densityMultiplier |-> 6, investmentMultiplier |-> 5, shouldPause |-> TRUE] }

\* dynamicStep = baseStep / density
DynamicStep(adj) == (baseStep * 10) \div adj.densityMultiplier

\* virtualIdx = int((checkPrice - lower) / dynamicStep), counted from 0
VirtualIdx(checkPrice, dynamicStep) == (checkPrice - gridLowerPrice) \div dynamicStep

\* dict assignment and deletion on _orders
PutOrder(book, price, order) ==
    [q \in (DOMAIN book) \cup {price} |-> IF q = price THEN order ELSE book[q]]

DelOrder(book, price) == [q \in (DOMAIN book) \ {price} |-> book[q]]

EmptyBook == [q \in {} |-> 0]

\* sum(1 for o in self._orders.values() if o.status == PENDING)
PendingCount(book) == Cardinality({q \in DOMAIN book : book[q].status = "PENDING"})

Abs(x) == IF x < 0 THEN -x ELSE x

\* isPriceOccupied of the sell zone: a PENDING SELL within 0.1 dynamicStep.
SellOccupied(book, checkPrice, dynamicStep) ==
    \E q \in DOMAIN book :
        /\ book[q].side = "SELL" /\ book[q].status = "PENDING"
        /\ Abs(q - checkPrice) * 10 < dynamicStep

\* isPriceOccupied of the buy zone: a PENDING or FILLED BUY within 0.1 dynamicStep.
BuyOccupied(book, checkPrice, dynamicStep) ==
    \E q \in DOMAIN book :
        /\ book[q].side = "BUY" /\ book[q].status \in {"PENDING", "FILLED"}
        /\ Abs(q - checkPrice) * 10 < dynamicStep

\* The scan of _evaluateGridOrders from checkPrice upwards: the first line
\* for which a placement is attempted, or 0 when the scan reaches the end.
\* Lines that are occupied or equal to the current price take no time.
RECURSIVE NextCandidate(_, _, _, _)
NextCandidate(book, checkPrice, dynamicStep, currentPrice) ==
    IF checkPrice > gridUpperPrice THEN 0
    ELSE IF checkPrice > currentPrice /\ ~SellOccupied(book, checkPrice, dynamicStep)
    THEN checkPrice
    ELSE IF checkPrice < currentPrice /\ ~BuyOccupied(book, checkPrice, dynamicStep)
    THEN checkPrice
    ELSE NextCandidate(book, checkPrice + dynamicStep, dynamicStep, currentPrice)

\* formatQuantity: numer / denom quantized to quantityPrecision, ROUND_DOWN;
\* the result is in units of 1/QtyScale.
formatQuantity(numer, denom) == (numer * QtyScale) \div denom

Min(a, b) == IF a < b THEN a ELSE b

\* baseInvestment of the placement functions, in tenths of a quote unit:
\* the investment multiplier, capped by martinMultiplier.
BaseInvestment(adj) ==
    IF adj = NoAdjustment
    THEN gridInvestmentPerGrid * 10
    ELSE Min(gridInvestmentPerGrid * adj.investmentMultiplier,
             gridInvestmentPerGrid * martinMultiplier)

\* Quantity of _placeBuyOrder: the martin safety layer, the minimum-notional
\* top-up (minNotional * 1.01) and the truncation.
BuyQuantity(adj, level, price) ==
    LET inv == IF level >= maxMartinLevels
               THEN gridInvestmentPerGrid * 10
               ELSE BaseInvestment(adj)
    IN IF inv < minNotional * 10
       THEN formatQuantity(minNotional * 101, 100 * price)
       ELSE formatQuantity(inv, 10 * price)

\* Quantity of _placeInitialSellOrder for a sell at sellPrice whose assumed
\* buy price is sellPrice - step.
InitialSellQuantity(adj, sellPrice, step) ==
    LET inv == BaseInvestment(adj)
        assumedBuyPrice == sellPrice - step
    IN IF inv * sellPrice < minNotional * 10 * assumedBuyPrice
       THEN formatQuantity(minNotional * 101, 100 * sellPrice)
       ELSE formatQuantity(inv, 10 * assumedBuyPrice)

\* The sell price of _placeSellOrder for a BUY of grid index gridIndex
\* (counted from 0) filled at buyPrice.
CompanionSellPrice(gridIndex, buyPrice) ==
    LET sellGridIndex == gridIndex + 1 IN
    IF sellGridIndex >= Len(gridPrices)
    THEN buyPrice + baseStep
    ELSE gridPrices[sellGridIndex + 1]

\* A stop-loss check that misses the stop price itself.
checkStopLossStrict(currentPrice) ==
    currentPrice * 100 < gridLowerPrice * (100 - stopLossPercent)

\* _checkStopLoss: currentPrice <= _gridPrices[0] * (1 - stopLossPercent)
checkStopLoss(currentPrice) ==
    currentPrice * 100 <= gridPrices[1] * (100 - stopLossPercent)

\* _checkTakeProfit: _realizedProfit >= takeProfitAmount
checkTakeProfit == realizedProfit >= takeProfitAmount * QtyScale

\* An on_price_update without its running check.
TickNeverIgnored == FALSE

\* The first statement of on_price_update: a strategy that is not running
\* ignores the tick.
TickIgnored == ~running

TickIdle == [pc |-> "idle", currentPrice |-> 0, checkPrice |-> 0, dynamicStep |-> 0,
             gridIndex |-> 0, side |-> "none", quantity |-> 0]

OrdIdle == [pc |-> "idle", gridIndex |-> 0, buyPrice |-> 0, quantity |-> 0,
            sellPrice |-> 0, rem |-> 0]

NoTick == [price |-> 0, trigger |-> FALSE, ignored |-> FALSE, exit |-> FALSE,
           cancelAll |-> FALSE, marketSell |-> FALSE, evaluated |-> FALSE,
           submitted |-> FALSE]

\* _creation_locks: a placement holds (gridIndex, side) from its entry to
\* its finally clause.
creation_locks ==
    (IF tick.pc = "sent" THEN {<<tick.gridIndex, tick.side>>} ELSE {})
    \cup (IF ord.pc \in {"sell_sleep", "sell_cooldown", "sell_sent"}
          THEN {<<ord.gridIndex, "SELL">>} ELSE {})

InitGrid ==
    /\ adaptiveMode \in BOOLEAN
    /\ started = FALSE
    /\ running = FALSE
    /\ lastPrice = 0
    /\ currentAdjustment = NoAdjustment
    /\ orders = EmptyBook
    /\ realizedProfit = 0
    /\ martinLevel = 0
    /\ tradeAge = cooldownSeconds
    /\ tick = TickIdle
    /\ ord = OrdIdle
    /\ nOrders = 0
    /\ nAnalyses = 0
    /\ submitAge = cooldownSeconds
    /\ tickLog = NoTick
    /\ exited = FALSE

(***************************************************************************)
(* GridStrategy.initialize and the analysis task.                          *)
(***************************************************************************)
\* initialize(): generateGrid, _loadState, gap check, bootstrap, start().
GridInitialize(restored, currentPrice, needBuy, buyOk) ==
    /\ ~started
    /\ started' = TRUE
    /\ running' = Initialize(restored, currentPrice, needBuy, buyOk).running
    /\ UNCHANGED <<adaptiveMode, lastPrice, currentAdjustment, orders, realizedProfit,
                   martinLevel, tradeAge, tick, ord, nOrders, nAnalyses, submitAge, tickLog, exited>>
    /\ UNCHANGED <<supVars, extVars>>

\* _analysisLoop: while running in adaptive mode, the analyzer replaces
\* _currentAdjustment.
AnalysisUpdate(adj) ==
    /\ started /\ running /\ adaptiveMode
    /\ nAnalyses < MaxAnalyses
    /\ adj # currentAdjustment
    /\ currentAdjustment' = adj
    /\ nAnalyses' = nAnalyses + 1
    /\ UNCHANGED <<adaptiveMode, started, running, lastPrice, orders, realizedProfit,
                   martinLevel, tradeAge, tick, ord, nOrders, submitAge, tickLog, exited>>
    /\ UNCHANGED <<supVars, extVars>>

(***************************************************************************)
(* on_price_update: the tick handler. The trade stream awaits it, so one   *)
(* tick is handled at a time.                                              *)
(*   idle       no tick in progress                                        *)
(*   drawdown   awaiting getTotalPositionValue in _checkMaxDrawdown        *)
(*   sent       awaiting createLimitOrder                                  *)
(*   sleep      in asyncio.sleep(0.15) after a placement attempt           *)
(*   exit       in the awaits of _emergencyExit                            *)
(***************************************************************************)
\* _emergencyExit up to its first await: _running = False, then the call of
\* client.cancelAllOrders().
EmergencyExitBegin(log) ==
    /\ running' = FALSE
    /\ exited' = TRUE
    /\ tick' = [TickIdle EXCEPT !.pc = "exit"]
    /\ tickLog' = [log EXCEPT !.exit = TRUE, !.cancelAll = TRUE]

\* One round of the scan of _evaluateGridOrders, from the line `from` to the
\* next suspension point: the first unoccupied line gets a placement
\* attempt, which either submits its limit order (createLimitOrder) or
\* returns at one of its gates; the scan then sleeps 0.15 s.
\*   gate     spread, reserve, position-ratio and circuit-breaker checks of
\*            _placeBuyOrder all pass (they read the market and the account)
\*   hasBase  the free base balance covers the sell quantity
EvaluateFrom(from, dynamicStep, currentPrice, adj, gate, hasBase, log) ==
    LET cp == NextCandidate(orders, from, dynamicStep, currentPrice) IN
    IF cp = 0
    THEN /\ tick' = TickIdle
         /\ tickLog' = [log EXCEPT !.evaluated = TRUE]
         /\ UNCHANGED <<nOrders, submitAge>>
    ELSE LET side == IF cp > currentPrice THEN "SELL" ELSE "BUY"
             idx == VirtualIdx(cp, dynamicStep)
             locked == <<idx, side>> \in creation_locks
             cooled == tradeAge >= cooldownSeconds
             submit == IF side = "BUY"
                       THEN ~locked /\ gate /\ PendingCount(orders) < maxOrderCount /\ cooled
                       ELSE ~locked /\ cp - dynamicStep > 0 /\ hasBase /\ cooled
             qty == IF side = "BUY"
                    THEN BuyQuantity(adj, martinLevel, cp)
                    ELSE InitialSellQuantity(adj, cp, dynamicStep)
             at == [TickIdle EXCEPT !.currentPrice = currentPrice, !.checkPrice = cp,
                                    !.dynamicStep = dynamicStep]
         IN IF submit /\ nOrders < MaxOrders
            THEN /\ tick' = [at EXCEPT !.pc = "sent", !.gridIndex = idx, !.side = side,
                                       !.quantity = qty]
                 /\ nOrders' = nOrders + 1
                 /\ submitAge' = 0
                 /\ tickLog' = [log EXCEPT !.evaluated = TRUE, !.submitted = TRUE]
            ELSE /\ tick' = [at EXCEPT !.pc = "sleep"]
                 /\ tickLog' = [log EXCEPT !.evaluated = TRUE]
                 /\ UNCHANGED <<nOrders, submitAge>>

\* A tick condition a risk gate of the specification names: the price is at
\* or below the stop price, or the realized profit has reached the target.
RiskGateHolds(price) ==
    \/ price * 100 <= gridLowerPrice * (100 - stopLossPercent)
    \/ realizedProfit >= takeProfitAmount * QtyScale

\* on_price_update up to its first suspension point: the running check,
\* _lastPrice, the stop-loss and the take-profit gate.
OnPriceUpdate(price) ==
    /\ started
    /\ tick.pc = "idle"
    /\ LET log == [NoTick EXCEPT !.price = price, !.trigger = running /\ RiskGateHolds(price)]
       IN
       IF TickIgnored
       THEN /\ tickLog' = [log EXCEPT !.ignored = TRUE]
            /\ UNCHANGED <<running, lastPrice, tick, exited>>
       ELSE /\ lastPrice' = price
            /\ IF checkStopLoss(price) \/ checkTakeProfit
               THEN EmergencyExitBegin(log)
               ELSE /\ tick' = [TickIdle EXCEPT !.pc = "drawdown", !.currentPrice = price]
                    /\ tickLog' = log
                    /\ UNCHANGED <<running, exited>>
    /\ UNCHANGED <<adaptiveMode, started, currentAdjustment, orders, realizedProfit,
                   martinLevel, tradeAge, ord, nOrders, nAnalyses, submitAge>>
    /\ UNCHANGED <<supVars, extVars>>

\* _checkMaxDrawdown returned; then the pause check, the stale-data check
\* and the entry of _evaluateGridOrders with its first round.
\*   exceeded   the drawdown computed from the balances is over maxDrawdown
\*   stale      the analyzer's last analysis is older than staleDataTimeout
TickDrawdown(exceeded, stale, gate, hasBase) ==
    /\ tick.pc = "drawdown"
    /\ IF exceeded
       THEN /\ EmergencyExitBegin(tickLog)
            /\ UNCHANGED <<currentAdjustment, nOrders, submitAge>>
       ELSE IF \/ currentAdjustment # NoAdjustment /\ currentAdjustment.shouldPause
               \/ adaptiveMode /\ currentAdjustment # NoAdjustment /\ stale
               \/ adaptiveMode /\ currentAdjustment = NoAdjustment
       THEN /\ tick' = TickIdle
            /\ UNCHANGED <<running, exited, currentAdjustment, nOrders, submitAge, tickLog>>
       ELSE LET adj == IF currentAdjustment = NoAdjustment
                       THEN DefaultAdjustment ELSE currentAdjustment
            IN /\ currentAdjustment' = adj
               /\ EvaluateFrom(gridLowerPrice, DynamicStep(adj), tick.currentPrice,
                               adj, gate, hasBase, tickLog)
               /\ UNCHANGED <<running, exited>>
    /\ UNCHANGED <<adaptiveMode, started, lastPrice, orders, realizedProfit,
                   martinLevel, tradeAge, ord, nAnalyses>>
    /\ UNCHANGED <<supVars, extVars>>

\* createLimitOrder of the tick's placement returned (ok) or raised after
\* its retries: _lastTradeTime, the order book entry, the martin level; the
\* lock is released and the scan sleeps.
TickOrderResponse(ok) ==
    /\ tick.pc = "sent"
    /\ IF ok
       THEN /\ tradeAge' = 0
            /\ orders' = PutOrder(orders, tick.checkPrice,
                   [gridIndex |-> tick.gridIndex, side |-> tick.side, status |-> "PENDING",
                    quantity |-> tick.quantity,
                    entryPrice |-> IF tick.side = "SELL"
                                   THEN tick.checkPrice - tick.dynamicStep ELSE 0])
            /\ martinLevel' = IF tick.side = "BUY"
                              THEN (IF currentAdjustment.investmentMultiplier > 10
                                    THEN martinLevel + 1 ELSE 0)
                              ELSE martinLevel
       ELSE UNCHANGED <<tradeAge, orders, martinLevel>>
    /\ tick' = [tick EXCEPT !.pc = "sleep", !.gridIndex = 0, !.side = "none",
                            !.quantity = 0]
    /\ UNCHANGED <<adaptiveMode, started, running, lastPrice, currentAdjustment,
                   realizedProfit, ord, nOrders, nAnalyses, submitAge, tickLog, exited>>
    /\ UNCHANGED <<supVars, extVars>>

\* The sleep after a placement attempt is over: checkPrice += dynamicStep and
\* the next round of the scan.
TickWake(gate, hasBase) ==
    /\ tick.pc = "sleep"
    /\ EvaluateFrom(tick.checkPrice + tick.dynamicStep, tick.dynamicStep,
                    tick.currentPrice, currentAdjustment, gate, hasBase, tickLog)
    /\ UNCHANGED <<adaptiveMode, started, running, lastPrice, currentAdjustment, orders,
                   realizedProfit, martinLevel, tradeAge, ord, nAnalyses, exited>>
    /\ UNCHANGED <<supVars, extVars>>

\* The rest of _emergencyExit: cancelAllOrders returned or raised, the base
\* balance is sold at market when it is positive, notification, _saveState.
EmergencyExitFinish(balancePositive) ==
    /\ tick.pc = "exit"
    /\ tick' = TickIdle
    /\ tickLog' = [tickLog EXCEPT !.marketSell = balancePositive]
    /\ UNCHANGED <<adaptiveMode, started, running, lastPrice, currentAdjustment, orders,
                   realizedProfit, martinLevel, tradeAge, ord, nOrders, nAnalyses, submitAge, exited>>
    /\ UNCHANGED <<supVars, extVars>>

(***************************************************************************)
(* on_order_update: the handler of the user data stream, which awaits it,  *)
(* so one event is handled at a time. An event is matched by its orderId   *)
(* to an entry of the order book; events that match no entry are ignored.  *)
(*   idle           no event in progress                                   *)
(*   sell_sleep     _placeSellOrder in asyncio.sleep(0.2)                  *)
(*   sell_cooldown  _placeSellOrder in asyncio.sleep(timeToWait)           *)
(*   sell_sent      _placeSellOrder awaiting createLimitOrder              *)
(*   publish        a SELL fill awaiting the PROFIT_MATCHED publication    *)
(***************************************************************************)
\* CANCELED, EXPIRED or REJECTED for the order at price p: the entry is
\* deleted.
OrderCanceled(p) ==
    /\ ord.pc = "idle"
    /\ p \in DOMAIN orders
    /\ orders[p].status = "PENDING"
    /\ orders' = DelOrder(orders, p)
    /\ UNCHANGED <<adaptiveMode, started, running, lastPrice, currentAdjustment,
                   realizedProfit, martinLevel, tradeAge, tick, ord, nOrders, nAnalyses, submitAge,
                   tickLog, exited>>
    /\ UNCHANGED <<supVars, extVars>>

\* FILLED for the BUY at price p, at its limit price: the entry becomes
\* FILLED and _placeSellOrder starts; it returns at once when the lock
\* (gridIndex, SELL) is taken.
BuyFilled(p) ==
    /\ ord.pc = "idle"
    /\ p \in DOMAIN orders
    /\ orders[p].side = "BUY" /\ orders[p].status = "PENDING"
    /\ orders' = [orders EXCEPT ![p].status = "FILLED"]
    /\ ord' = IF <<orders[p].gridIndex, "SELL">> \in creation_locks
              THEN OrdIdle
              ELSE [pc |-> "sell_sleep", gridIndex |-> orders[p].gridIndex,
                    buyPrice |-> p, quantity |-> orders[p].quantity,
                    sellPrice |-> CompanionSellPrice(orders[p].gridIndex, p),
                    rem |-> 0]
    /\ UNCHANGED <<adaptiveMode, started, running, lastPrice, currentAdjustment,
                   realizedProfit, martinLevel, tradeAge, tick, nOrders, nAnalyses, submitAge,
                   tickLog, exited>>
    /\ UNCHANGED <<supVars, extVars>>

\* _placeSellOrder from its balance check to the call of createLimitOrder:
\* without base balance it returns, otherwise the order is submitted.
SubmitSell(hasBase) ==
    IF hasBase /\ nOrders < MaxOrders
    THEN /\ ord' = [ord EXCEPT !.pc = "sell_sent", !.rem = 0]
         /\ nOrders' = nOrders + 1
         /\ submitAge' = 0
    ELSE /\ ord' = OrdIdle
         /\ UNCHANGED <<nOrders, submitAge>>

\* The 0.2 s sleep of _placeSellOrder is over: timeToWait is computed from
\* _lastTradeTime; when it is positive the handler sleeps that long.
SellSleepDone(hasBase) ==
    /\ ord.pc = "sell_sleep"
    /\ LET timeToWait == cooldownSeconds - tradeAge IN
       IF timeToWait > 0
       THEN /\ ord' = [ord EXCEPT !.pc = "sell_cooldown", !.rem = timeToWait]
            /\ UNCHANGED <<nOrders, submitAge>>
       ELSE SubmitSell(hasBase)
    /\ UNCHANGED <<adaptiveMode, started, running, lastPrice, currentAdjustment, orders,
                   realizedProfit, martinLevel, tradeAge, tick, nAnalyses, tickLog, exited>>
    /\ UNCHANGED <<supVars, extVars>>

\* The cooldown sleep of _placeSellOrder is over; the order is submitted
\* without looking at _lastTradeTime again.
SellCooldownDone(hasBase) ==
    /\ ord.pc = "sell_cooldown"
    /\ ord.rem = 0
    /\ SubmitSell(hasBase)
    /\ UNCHANGED <<adaptiveMode, started, running, lastPrice, currentAdjustment, orders,
                   realizedProfit, martinLevel, tradeAge, tick, nAnalyses, tickLog, exited>>
    /\ UNCHANGED <<supVars, extVars>>

\* createLimitOrder of the companion SELL returned (ok) or raised:
\* _lastTradeTime and the order book entry at sellPrice, with the buy fill
\* price as entryPrice.
SellOrderResponse(ok) ==
    /\ ord.pc = "sell_sent"
    /\ IF ok
       THEN /\ tradeAge' = 0
            /\ orders' = PutOrder(orders, ord.sellPrice,
                   [gridIndex |-> ord.gridIndex, side |-> "SELL", status |-> "PENDING",
                    quantity |-> ord.quantity, entryPrice |-> ord.buyPrice])
       ELSE UNCHANGED <<tradeAge, orders>>
    /\ ord' = OrdIdle
    /\ UNCHANGED <<adaptiveMode, started, running, lastPrice, currentAdjustment,
                   realizedProfit, martinLevel, tick, nOrders, nAnalyses, submitAge, tickLog, exited>>
    /\ UNCHANGED <<supVars, extVars>>

\* FILLED for the SELL at price p, at its limit price: the profit
\* (filledPrice - entryPrice) * filledQty is added to _realizedProfit, then
\* the handler awaits the publication of PROFIT_MATCHED.
SellFilled(p) ==
    /\ ord.pc = "idle"
    /\ p \in DOMAIN orders
    /\ orders[p].side = "SELL" /\ orders[p].status = "PENDING"
    /\ orders' = [orders EXCEPT ![p].status = "FILLED"]
    /\ IF orders[p].entryPrice # 0
       THEN /\ realizedProfit' = realizedProfit + (p - orders[p].entryPrice) * orders[p].quantity
            /\ ord' = [OrdIdle EXCEPT !.pc = "publish", !.sellPrice = p,
                                      !.buyPrice = orders[p].entryPrice]
       ELSE UNCHANGED <<realizedProfit, ord>>
    /\ UNCHANGED <<adaptiveMode, started, running, lastPrice, currentAdjustment,
                   martinLevel, tradeAge, tick, nOrders, nAnalyses, submitAge, tickLog, exited>>
    /\ UNCHANGED <<supVars, extVars>>

\* After the publication: the entry at the sell price is deleted, and the
\* entry at the entry price when there is one.
SellFilledFinish ==
    /\ ord.pc = "publish"
    /\ orders' = LET book == DelOrder(orders, ord.sellPrice) IN
                 IF ord.buyPrice \in DOMAIN book THEN DelOrder(book, ord.buyPrice) ELSE book
    /\ ord' = OrdIdle
    /\ UNCHANGED <<adaptiveMode, started, running, lastPrice, currentAdjustment,
                   realizedProfit, martinLevel, tradeAge, tick, nOrders, nAnalyses, submitAge,
                   tickLog, exited>>
    /\ UNCHANGED <<supVars, extVars>>

(***************************************************************************)
(* Time: one unit passes for the clocks and for the cooldown sleep. A      *)
(* sleeper whose time is up runs before the next unit begins.              *)
(***************************************************************************)
Advance ==
    /\ tick.pc # "sleep"
    /\ ord.pc # "sell_sleep"
    /\ ~(ord.pc = "sell_cooldown" /\ ord.rem = 0)
    /\ tradeAge < cooldownSeconds \/ submitAge < cooldownSeconds \/ ord.rem > 0
    /\ tradeAge' = Min(tradeAge + 1, cooldownSeconds)
    /\ submitAge' = Min(submitAge + 1, cooldownSeconds)
    /\ ord' = [ord EXCEPT !.rem = IF @ > 0 THEN @ - 1 ELSE 0]
    /\ UNCHANGED <<adaptiveMode, started, running, lastPrice, currentAdjustment, orders,
                   realizedProfit, martinLevel, tick, nOrders, nAnalyses, tickLog, exited>>
    /\ UNCHANGED <<supVars, extVars>>

(***************************************************************************)
(* The state file: _saveState writes realizedProfit and the order book as  *)
(* JSON, Decimals as their str(), and _loadState reads them back.          *)
(* A string of a Decimal is its sign, its digits and its exponent.         *)
(***************************************************************************)
RECURSIVE DigitSeq(_)
\* The decimal digits of c >= 0, most significant first.
DigitSeq(c) == IF c < 10 THEN <<c>> ELSE Append(DigitSeq(c \div 10), c % 10)

RECURSIVE DigitValue(_)
\* The number a sequence of digits denotes.
DigitValue(ds) ==
    IF ds = <<>> THEN 0 ELSE 10 * DigitValue(SubSeq(ds, 1, Len(ds) - 1)) + ds[Len(ds)]

\* str(Decimal) of the value c * 10^e
DecStr(c, e) == [neg |-> c < 0, digits |-> DigitSeq(Abs(c)), exp |-> e]

\* Decimal(s): the coefficient of the Decimal the string denotes
DecParse(s) == IF s.neg THEN 0 - DigitValue(s.digits) ELSE DigitValue(s.digits)

\* json null
JsonNull == [neg |-> FALSE, digits |-> <<>>, exp |-> 0]

\* The order id the exchange gave the order at price p; the model names an
\* order by its price.
OrderIdAt(p) == p

\* GridOrder.toDict of the entry at price p. Prices are whole quote units,
\* quantities have quantityPrecision decimals; entryPrice 0 stands for None,
\* and `if self.entryPrice` is false for None and for a zero Decimal.
toDict(book, p) ==
    [gridIndex |-> book[p].gridIndex,
     price |-> DecStr(p, 0),
     side |-> book[p].side,
     quantity |-> DecStr(book[p].quantity, 0 - quantityPrecision),
     orderId |-> OrderIdAt(p),
     status |-> book[p].status,
     entryPrice |-> IF book[p].entryPrice # 0 THEN DecStr(book[p].entryPrice, 0)
                    ELSE JsonNull]

\* A fromDict that forgets the entry price.
fromDictNoEntry(data) ==
    [gridIndex |-> data.gridIndex, price |-> DecParse(data.price), side |-> data.side,
     quantity |-> DecParse(data.quantity), orderId |-> data.orderId,
     status |-> data.status, entryPrice |-> 0]

\* GridOrder.fromDict
fromDict(data) ==
    [gridIndex |-> data.gridIndex,
     price |-> DecParse(data.price),
     side |-> data.side,
     quantity |-> DecParse(data.quantity),
     orderId |-> data.orderId,
     status |-> data.status,
     entryPrice |-> IF data.entryPrice # JsonNull THEN DecParse(data.entryPrice) ELSE 0]

\* _saveState: the JSON document written for the current state.
saveState ==
    [realizedProfit |-> DecStr(realizedProfit, 0 - quantityPrecision),
     lastPrice |-> DecStr(lastPrice, 0),
     running |-> running,
     orders |-> [k \in {DecStr(p, 0) : p \in DOMAIN orders} |-> toDict(orders, DecParse(k))]]

\* _loadState of a new strategy object: _realizedProfit and _orders, each
\* order under the key order.price.
loadState(data) ==
    LET loaded == {fromDict(data.orders[k]) : k \in DOMAIN data.orders}
    IN [realizedProfit |-> DecParse(data.realizedProfit),
        orders |-> [p \in {o.price : o \in loaded} |->
                       CHOOSE o \in loaded : o.price = p]]

\* The GridOrder objects of the order book, by key.
GridOrders(book) ==
    [p \in DOMAIN book |->
        [gridIndex |-> book[p].gridIndex, price |-> p, side |-> book[p].side,
         quantity |-> book[p].quantity, orderId |-> OrderIdAt(p),
         status |-> book[p].status, entryPrice |-> book[p].entryPrice]]

(***************************************************************************)
(* The strategy specification.                                             *)
(***************************************************************************)
NextGrid ==
    \/ \E restored \in BOOLEAN, p \in InitPrices, needBuy \in BOOLEAN, buyOk \in BOOLEAN :
          GridInitialize(restored, p, needBuy, buyOk)
    \/ \E adj \in AnalyzerAdjustments : AnalysisUpdate(adj)
    \/ \E price \in TickPrices : OnPriceUpdate(price)
    \/ \E exceeded \in BOOLEAN, stale \in BOOLEAN, gate \in BOOLEAN, hasBase \in BOOLEAN :
          TickDrawdown(exceeded, stale, gate, hasBase)
    \/ \E ok \in BOOLEAN : TickOrderResponse(ok)
    \/ \E gate \in BOOLEAN, hasBase \in BOOLEAN : TickWake(gate, hasBase)
    \/ \E balancePositive \in BOOLEAN : EmergencyExitFinish(balancePositive)
    \/ \E p \in OrderPrices : OrderCanceled(p)
    \/ \E p \in OrderPrices : BuyFilled(p)
    \/ \E hasBase \in BOOLEAN : SellSleepDone(hasBase)
    \/ \E hasBase \in BOOLEAN : SellCooldownDone(hasBase)
    \/ \E ok \in BOOLEAN : SellOrderResponse(ok)
    \/ \E p \in OrderPrices : SellFilled(p)
    \/ SellFilledFinish
    \/ Advance

(***************************************************************************)
(* GridStrategy.panic_close, called by panic_close_bot of the supervisor   *)
(* while the handlers of the strategy go on running.                       *)
(*   cancel   awaiting client.cancelAllOrders()                            *)
(*   balance  awaiting client.getFreeBalance(baseAsset)                    *)
(*   price    awaiting client.getCurrentPrice()                            *)
(*   market   awaiting client.createMarketOrder(SELL, quantity)            *)
(*   done     returned (result) or raised                                  *)
(***************************************************************************)
\* Free base balances getFreeBalance can report, in units of 1/QtyScale.
PanicBalances == {0, 10, 100}

PanicIdle == [pc |-> "idle", quantity |-> 0, result |-> "none", reason |-> "none",
              marketSent |-> FALSE]

InitPanic == panic = PanicIdle

\* panic_close up to cancelAllOrders.
PanicCloseBegin ==
    /\ started
    /\ panic.pc = "idle"
    /\ panic' = [panic EXCEPT !.pc = "cancel"]
    /\ UNCHANGED <<supVars, gridVars, aggVars, anaVars, retryVars, bucketVars, genVars, balVars, adjVars>>

\* cancelAllOrders returned: every entry is marked CANCELLED, the book is
\* cleared and saved. If it raised, panic_close returns status error.
PanicCancelResponse(ok) ==
    /\ panic.pc = "cancel"
    /\ IF ok
       THEN /\ orders' = EmptyBook
            /\ panic' = [panic EXCEPT !.pc = "balance"]
       ELSE /\ panic' = [panic EXCEPT !.pc = "done", !.result = "error", !.reason = "cancel"]
            /\ UNCHANGED orders
    /\ UNCHANGED <<adaptiveMode, started, running, lastPrice, currentAdjustment,
                   realizedProfit, martinLevel, tradeAge, tick, ord,
                   nOrders, nAnalyses, submitAge, tickLog, exited>>
    /\ UNCHANGED <<supVars, aggVars, anaVars, retryVars, bucketVars, genVars, balVars, adjVars>>

\* getFreeBalance returned freeBalance: formatQuantity; a sellable
\* quantity of zero ends panic_close with status success.
PanicBalanceResponse(freeBalance) ==
    /\ panic.pc = "balance"
    /\ LET sell_qty == formatQuantity(freeBalance, QtyScale) IN
       IF sell_qty <= 0
       THEN panic' = [panic EXCEPT !.pc = "done", !.result = "success", !.reason = "nothing"]
       ELSE panic' = [panic EXCEPT !.pc = "price", !.quantity = sell_qty]
    /\ UNCHANGED <<supVars, gridVars, aggVars, anaVars, retryVars, bucketVars, genVars, balVars, adjVars>>

\* getCurrentPrice returned currentPrice or raised (raised: the estimate is
\* skipped): below minNotional panic_close returns status error, otherwise
\* it calls createMarketOrder.
PanicPriceResponse(raised, currentPrice) ==
    /\ panic.pc = "price"
    /\ IF ~raised /\ panic.quantity * currentPrice < minNotional * QtyScale
       THEN panic' = [panic EXCEPT !.pc = "done", !.result = "error", !.reason = "min_notional"]
       ELSE panic' = [panic EXCEPT !.pc = "market", !.marketSent = TRUE]
    /\ UNCHANGED <<supVars, gridVars, aggVars, anaVars, retryVars, bucketVars, genVars, balVars, adjVars>>

\* createMarketOrder returned: _running = False, _saveState, status
\* success. If it raised: status error.
PanicMarketResponse(ok) ==
    /\ panic.pc = "market"
    /\ IF ok
       THEN /\ running' = FALSE
            /\ panic' = [panic EXCEPT !.pc = "done", !.result = "success", !.reason = "sold"]
       ELSE /\ panic' = [panic EXCEPT !.pc = "done", !.result = "error", !.reason = "market"]
            /\ UNCHANGED running
    /\ UNCHANGED <<adaptiveMode, started, lastPrice, currentAdjustment, orders,
                   realizedProfit, martinLevel, tradeAge, tick, ord,
                   nOrders, nAnalyses, submitAge, tickLog, exited>>
    /\ UNCHANGED <<supVars, aggVars, anaVars, retryVars, bucketVars, genVars, balVars, adjVars>>

\* panic_close beside the tick handler of the strategy.
NextPanic ==
    \/ \E restored \in BOOLEAN, p \in InitPrices, needBuy \in BOOLEAN, buyOk \in BOOLEAN :
          GridInitialize(restored, p, needBuy, buyOk)
    \/ \E price \in TickPrices : OnPriceUpdate(price)
    \/ \E exceeded \in BOOLEAN, stale \in BOOLEAN, gate \in BOOLEAN, hasBase \in BOOLEAN :
          TickDrawdown(exceeded, stale, gate, hasBase)
    \/ \E ok \in BOOLEAN : TickOrderResponse(ok)
    \/ \E gate \in BOOLEAN, hasBase \in BOOLEAN : TickWake(gate, hasBase)
    \/ \E balancePositive \in BOOLEAN : EmergencyExitFinish(balancePositive)
    \/ Advance
    \/ PanicCloseBegin
    \/ \E ok \in BOOLEAN : PanicCancelResponse(ok)
    \/ \E freeBalance \in PanicBalances : PanicBalanceResponse(freeBalance)
    \/ \E raised \in BOOLEAN, currentPrice \in TickPrices : PanicPriceResponse(raised, currentPrice)
    \/ \E ok \in BOOLEAN : PanicMarketResponse(ok)

(***************************************************************************)
(* StreamAggregator: the market registry (_market_subscriptions), the      *)
(* user-data registry (_user_subscriptions), one reader task per key and   *)
(* one task per event and callback. subscribe_* and unsubscribe_* run      *)
(* under _lock; the reader tasks and the callback tasks do not take it.    *)
(***************************************************************************)
\* One (symbol, testnet) key of the market registry and one api_key_id of
\* the user-data registry.
MarketKeys == {"btcusdt"}
UserKeys == {"key_7"}
AggKeys == MarketKeys \cup UserKeys
AggCallbacks == {"A", "B"}
ReaderIds == 1..MaxReaders

\* A key that is not in its registry.
NoSubscription == [present |-> FALSE, callbacks |-> {}, task |-> 0]
NoReader == [pc |-> "none", key |-> "none"]
AggCallIdle == [pc |-> "idle", key |-> "none"]

\* The registry a key belongs to.
Registry(k) == IF k \in MarketKeys THEN market_subscriptions ELSE user_subscriptions

InitAgg ==
    /\ market_subscriptions = [k \in MarketKeys |-> NoSubscription]
    /\ user_subscriptions = [k \in UserKeys |-> NoSubscription]
    /\ readers = [t \in ReaderIds |-> NoReader]
    /\ nReaders = 0
    /\ aggCall = AggCallIdle
    /\ nFrames = 0
    /\ cbTasks = <<>>
    /\ handled = [cb \in AggCallbacks |-> <<>>]
    /\ dispatched = <<>>

\* The body of subscribe_market and of subscribe_user_data under the lock:
\* a key that is not in the registry gets a new reader task and the
\* callback, a key that is there gets the callback added.
Subscribed(registry, k, callback) ==
    IF ~registry[k].present
    THEN [registry EXCEPT ![k] = [present |-> TRUE, callbacks |-> {callback},
                                  task |-> nReaders + 1]]
    ELSE [registry EXCEPT ![k].callbacks = @ \cup {callback}]

\* asyncio.create_task(self._market_loop(...)) / self._user_loop(...)
CreateReader(registry, k) ==
    IF ~registry[k].present
    THEN /\ nReaders < MaxReaders
         /\ readers' = [readers EXCEPT ![nReaders + 1] = [pc |-> "created", key |-> k]]
         /\ nReaders' = nReaders + 1
    ELSE UNCHANGED <<readers, nReaders>>

\* task.cancel() on a reader: a task that has not ended gets a pending
\* cancellation, delivered at its next step.
CancelReader(t) ==
    IF readers[t].pc \in {"created", "reading"}
    THEN [readers EXCEPT ![t].pc = "cancelling"]
    ELSE readers

subscribe_market(k, callback) ==
    /\ aggCall.pc = "idle"
    /\ CreateReader(market_subscriptions, k)
    /\ market_subscriptions' = Subscribed(market_subscriptions, k, callback)
    /\ UNCHANGED <<user_subscriptions, aggCall, nFrames, cbTasks, handled, dispatched>>
    /\ UNCHANGED <<supVars, gridVars, panicVars, anaVars, retryVars, bucketVars, genVars, balVars, adjVars>>

\* unsubscribe_market: the callback is discarded; when none is left the
\* reader is cancelled and the key deleted.
unsubscribe_market(k, callback) ==
    /\ aggCall.pc = "idle"
    /\ market_subscriptions[k].present
    /\ LET rest == market_subscriptions[k].callbacks \ {callback} IN
       IF rest = {}
       THEN /\ readers' = CancelReader(market_subscriptions[k].task)
            /\ market_subscriptions' = [market_subscriptions EXCEPT ![k] = NoSubscription]
       ELSE /\ market_subscriptions' = [market_subscriptions EXCEPT ![k].callbacks = rest]
            /\ UNCHANGED readers
    /\ UNCHANGED <<user_subscriptions, nReaders, aggCall, nFrames, cbTasks, handled, dispatched>>
    /\ UNCHANGED <<supVars, gridVars, panicVars, anaVars, retryVars, bucketVars, genVars, balVars, adjVars>>

subscribe_user_data(k, callback) ==
    /\ aggCall.pc = "idle"
    /\ CreateReader(user_subscriptions, k)
    /\ user_subscriptions' = Subscribed(user_subscriptions, k, callback)
    /\ UNCHANGED <<market_subscriptions, aggCall, nFrames, cbTasks, handled, dispatched>>
    /\ UNCHANGED <<supVars, gridVars, panicVars, anaVars, retryVars, bucketVars, genVars, balVars, adjVars>>

\* unsubscribe_user_data up to `await client.close_connection()`: the
\* callback is discarded; when none is left the reader is cancelled and the
\* call waits, holding the lock, for the connection to close.
unsubscribe_user_data(k, callback) ==
    /\ aggCall.pc = "idle"
    /\ user_subscriptions[k].present
    /\ LET rest == user_subscriptions[k].callbacks \ {callback} IN
       /\ user_subscriptions' = [user_subscriptions EXCEPT ![k].callbacks = rest]
       /\ IF rest = {}
          THEN /\ readers' = CancelReader(user_subscriptions[k].task)
               /\ aggCall' = [pc |-> "closing", key |-> k]
          ELSE UNCHANGED <<readers, aggCall>>
    /\ UNCHANGED <<market_subscriptions, nReaders, nFrames, cbTasks, handled, dispatched>>
    /\ UNCHANGED <<supVars, gridVars, panicVars, anaVars, retryVars, bucketVars, genVars, balVars, adjVars>>

\* close_connection returned (ok): the key is deleted. If it raised, the
\* exception leaves unsubscribe_user_data and the lock is released.
UserCloseConnection(ok) ==
    /\ aggCall.pc = "closing"
    /\ aggCall' = AggCallIdle
    /\ IF ok
       THEN user_subscriptions' = [user_subscriptions EXCEPT ![aggCall.key] = NoSubscription]
       ELSE UNCHANGED user_subscriptions
    /\ UNCHANGED <<market_subscriptions, readers, nReaders, nFrames, cbTasks, handled, dispatched>>
    /\ UNCHANGED <<supVars, gridVars, panicVars, anaVars, retryVars, bucketVars, genVars, balVars, adjVars>>

(***************************************************************************)
(* The reader tasks (_market_loop, _user_loop).                            *)
(*   created     the task exists and has not run yet                       *)
(*   reading     inside `async with ... as stream`, awaiting stream.recv() *)
(*   cancelling  task.cancel() was called, CancelledError not yet raised   *)
(*   done        the task has ended                                        *)
(***************************************************************************)
\* The first step of a reader: the socket is opened and recv() awaited.
ReaderStart(t) ==
    /\ readers[t].pc = "created"
    /\ readers' = [readers EXCEPT ![t].pc = "reading"]
    /\ UNCHANGED <<market_subscriptions, user_subscriptions, nReaders, aggCall,
                   nFrames, cbTasks, handled, dispatched>>
    /\ UNCHANGED <<supVars, gridVars, panicVars, anaVars, retryVars, bucketVars, genVars, balVars, adjVars>>

\* CancelledError reaches the reader: `except asyncio.CancelledError: pass`.
ReaderCancelled(t) ==
    /\ readers[t].pc = "cancelling"
    /\ readers' = [readers EXCEPT ![t].pc = "done"]
    /\ UNCHANGED <<market_subscriptions, user_subscriptions, nReaders, aggCall,
                   nFrames, cbTasks, handled, dispatched>>
    /\ UNCHANGED <<supVars, gridVars, panicVars, anaVars, retryVars, bucketVars, genVars, balVars, adjVars>>

\* The socket cannot be opened, or recv() or the decoding of a frame
\* raises: `except Exception` logs the crash and the task ends; the
\* registry is not touched.
ReaderCrash(t) ==
    /\ readers[t].pc \in {"created", "reading"}
    /\ readers' = [readers EXCEPT ![t].pc = "done"]
    /\ UNCHANGED <<market_subscriptions, user_subscriptions, nReaders, aggCall,
                   nFrames, cbTasks, handled, dispatched>>
    /\ UNCHANGED <<supVars, gridVars, panicVars, anaVars, retryVars, bucketVars, genVars, balVars, adjVars>>

\* A dispatch that forgets nobody: every callback there is.
DispatchToAll(k) == AggCallbacks

\* The callbacks a reader hands a frame of key k to:
\* self._market_subscriptions.get(key, {}).get("callbacks", set())
DispatchTargets(k) == IF Registry(k)[k].present THEN Registry(k)[k].callbacks ELSE {}

\* The orders in which `for cb in list(callbacks)` can visit a set.
Orderings(S) ==
    {seq \in [1..Cardinality(S) -> S] : \A i, j \in 1..Cardinality(S) : i # j => seq[i] # seq[j]}

\* A frame arrives at a reader: one task per callback of the key,
\* asyncio.create_task(cb(price)).
FrameArrives(t) ==
    /\ readers[t].pc = "reading"
    /\ nFrames < MaxFrames
    /\ nFrames' = nFrames + 1
    /\ LET k == readers[t].key
           targets == DispatchTargets(k)
       IN /\ \E seq \in Orderings(targets) :
                cbTasks' = cbTasks \o [i \in 1..Cardinality(targets) |->
                              [cb |-> seq[i], key |-> k, frame |-> nFrames + 1, pc |-> "created"]]
          /\ dispatched' = Append(dispatched, [key |-> k, frame |-> nFrames + 1, to |-> targets])
    /\ UNCHANGED <<market_subscriptions, user_subscriptions, readers, nReaders, aggCall, handled>>
    /\ UNCHANGED <<supVars, gridVars, panicVars, anaVars, retryVars, bucketVars, genVars, balVars, adjVars>>

\* The event loop starts tasks in the order of their creation: the oldest
\* callback task that has not run yet runs up to its first await.
CallbackStart ==
    /\ \E i \in 1..Len(cbTasks) :
          /\ cbTasks[i].pc = "created"
          /\ \A j \in 1..(i - 1) : cbTasks[j].pc # "created"
          /\ cbTasks' = [cbTasks EXCEPT ![i].pc = "suspended"]
    /\ UNCHANGED <<market_subscriptions, user_subscriptions, readers, nReaders, aggCall,
                   nFrames, handled, dispatched>>
    /\ UNCHANGED <<supVars, gridVars, panicVars, anaVars, retryVars, bucketVars, genVars, balVars, adjVars>>

\* A suspended callback task is resumed and completes the handling of its
\* event (on_price_update after `await self._checkMaxDrawdown(price)`).
CallbackFinish(i) ==
    /\ i \in 1..Len(cbTasks)
    /\ cbTasks[i].pc = "suspended"
    /\ handled' = [handled EXCEPT ![cbTasks[i].cb] =
                       Append(@, [key |-> cbTasks[i].key, frame |-> cbTasks[i].frame])]
    /\ cbTasks' = [j \in 1..(Len(cbTasks) - 1) |-> IF j < i THEN cbTasks[j] ELSE cbTasks[j + 1]]
    /\ UNCHANGED <<market_subscriptions, user_subscriptions, readers, nReaders, aggCall,
                   nFrames, dispatched>>
    /\ UNCHANGED <<supVars, gridVars, panicVars, anaVars, retryVars, bucketVars, genVars, balVars, adjVars>>

NextAgg ==
    \/ \E k \in MarketKeys, callback \in AggCallbacks : subscribe_market(k, callback)
    \/ \E k \in MarketKeys, callback \in AggCallbacks : unsubscribe_market(k, callback)
    \/ \E k \in UserKeys, callback \in AggCallbacks : subscribe_user_data(k, callback)
    \/ \E k \in UserKeys, callback \in AggCallbacks : unsubscribe_user_data(k, callback)
    \/ \E ok \in BOOLEAN : UserCloseConnection(ok)
    \/ \E t \in ReaderIds : ReaderStart(t)
    \/ \E t \in ReaderIds : ReaderCancelled(t)
    \/ \E t \in ReaderIds : ReaderCrash(t)
    \/ \E t \in ReaderIds : FrameArrives(t)
    \/ CallbackStart
    \/ \E i \in 1..MaxFrames * Cardinality(AggCallbacks) : CallbackFinish(i)

(***************************************************************************)
(* MarketAnalyzer with its AsymmetricStateController. One evaluation is    *)
(* one call of analyze(); the indicators computed from the klines are its  *)
(* inputs:                                                                 *)
(*   rsi           RSI of the big period                                   *)
(*   sma           "bullish" (SMA7 > SMA25), "bearish" (<) or "neutral";   *)
(*                 bigTrend is computed from the same comparison           *)
(*   atrHigh       atrRatio >= ATR_HIGH_RATIO                              *)
(*   isHighVolume  volumeRatio >= VOLUME_SURGE_RATIO                       *)
(*   smallRsiOk    smallRsi is None or smallRsi >= 55                      *)
(***************************************************************************)
ENTER_BREAKOUT_RSI == 68
EXIT_BREAKOUT_RSI == 58
ENTER_BLEED_RSI == 32
EXIT_BLEED_RSI == 42
ENTER_PANIC_RSI == 18
\* An exit threshold as low as the entry threshold: no hysteresis.
ExitPanicAtEntry == ENTER_PANIC_RSI
EXIT_PANIC_RSI == 28
CONFIRMATION_CANDLES == 2
COOLING_CANDLES == 3

MarketState == {"LOW_VOL_RANGE", "WIDE_RANGE", "STRONG_BREAKOUT", "SLOW_BLEED", "PANIC_SELL"}

\* A controller for which only a panic is a danger.
PanicOnly == {"PANIC_SELL"}

\* AsymmetricStateController.DANGER_STATES
DANGER_STATES == {"SLOW_BLEED", "PANIC_SELL"}

\* One RSI value for every interval the thresholds cut out.
RsiValues == {15, 25, 30, 40, 50, 60, 70}
SmaRelations == {"bullish", "bearish", "neutral"}

\* _determineStateWithHysteresis: the raw regime of an evaluation.
determineStateWithHysteresis(currentState, rsi, sma, atrHigh, isHighVolume, smallRsiOk) ==
    LET smaBullish == sma = "bullish"
        smaBearish == sma = "bearish"
        bigTrend == sma
        volatility == IF atrHigh THEN "WIDE_RANGE" ELSE "LOW_VOL_RANGE"
        volume ==
            IF isHighVolume /\ smaBullish /\ rsi >= ENTER_BREAKOUT_RSI /\ bigTrend = "bullish"
            THEN "STRONG_BREAKOUT" ELSE volatility
        bleed ==
            IF currentState = "SLOW_BLEED"
            THEN IF rsi <= EXIT_BLEED_RSI /\ smaBearish THEN "SLOW_BLEED" ELSE volume
            ELSE IF rsi <= ENTER_BLEED_RSI /\ smaBearish /\ bigTrend = "bearish"
                 THEN "SLOW_BLEED" ELSE volume
        breakout ==
            IF currentState = "STRONG_BREAKOUT"
            THEN IF rsi >= EXIT_BREAKOUT_RSI /\ smaBullish
                 THEN IF bigTrend = "bearish" THEN "WIDE_RANGE" ELSE "STRONG_BREAKOUT"
                 ELSE bleed
            ELSE IF rsi >= ENTER_BREAKOUT_RSI /\ smaBullish /\ smallRsiOk
                 THEN "STRONG_BREAKOUT" ELSE bleed
    IN IF currentState = "PANIC_SELL"
       THEN IF rsi > EXIT_PANIC_RSI THEN breakout ELSE "PANIC_SELL"
       ELSE IF rsi <= ENTER_PANIC_RSI /\ atrHigh THEN "PANIC_SELL" ELSE breakout

\* deque(maxlen=confirmation_candles).append
BufferAppend(buffer, s) ==
    LET b == Append(buffer, s) IN
    IF Len(b) > CONFIRMATION_CANDLES THEN SubSeq(b, 2, Len(b)) ELSE b

\* get_confirmed_state: the controller after the call; its current_state is
\* the value returned.
get_confirmed_state(raw_state) ==
    IF raw_state \in DANGER_STATES
    THEN IF current_state # raw_state
         THEN [current_state |-> raw_state, state_buffer |-> <<>>]
         ELSE [current_state |-> current_state, state_buffer |-> state_buffer]
    ELSE IF raw_state = current_state
    THEN [current_state |-> current_state, state_buffer |-> <<>>]
    ELSE LET b == BufferAppend(state_buffer, raw_state) IN
         IF Len(b) = CONFIRMATION_CANDLES /\ \A i \in 1..Len(b) : b[i] = raw_state
         THEN [current_state |-> raw_state, state_buffer |-> <<>>]
         ELSE [current_state |-> current_state, state_buffer |-> b]

\* shouldPause of the recipe _generateAdjustment picks for a regime.
RecipePause(state) == state = "SLOW_BLEED"

NoEval == [short |-> TRUE, prev |-> "none", raw |-> "none", state |-> "none",
           shouldPause |-> FALSE, rsi |-> 0, buffered |-> 0]

InitAnalyzer ==
    /\ current_state = "LOW_VOL_RANGE"
    /\ state_buffer = <<>>
    /\ coolingRemaining = 0
    /\ lastEval = NoEval
    /\ prevRaw = "none"
    /\ exitAge = COOLING_CANDLES + 1

\* analyze() with enough klines: raw regime, confirmation, cooling counter
\* and the adjustment.
Analyze(rsi, sma, atrHigh, isHighVolume, smallRsiOk) ==
    LET rawState == determineStateWithHysteresis(current_state, rsi, sma, atrHigh,
                                                 isHighVolume, smallRsiOk)
        lastConfirmedState == current_state
        ctl == get_confirmed_state(rawState)
        state == ctl.current_state
        leaves == lastConfirmedState \in {"SLOW_BLEED", "PANIC_SELL"}
                  /\ state \notin {"SLOW_BLEED", "PANIC_SELL"}
        cooling == IF leaves THEN COOLING_CANDLES
                   ELSE IF coolingRemaining > 0 THEN coolingRemaining - 1 ELSE 0
    IN /\ current_state' = ctl.current_state
       /\ state_buffer' = ctl.state_buffer
       /\ coolingRemaining' = cooling
       /\ lastEval' = [short |-> FALSE, prev |-> lastConfirmedState, raw |-> rawState,
                       state |-> state, shouldPause |-> (RecipePause(state) \/ cooling > 0),
                       rsi |-> rsi, buffered |-> Len(state_buffer)]
       /\ prevRaw' = lastEval.raw
       /\ exitAge' = IF leaves THEN 0
                     ELSE IF exitAge <= COOLING_CANDLES THEN exitAge + 1 ELSE exitAge
       /\ UNCHANGED <<supVars, gridVars, panicVars, aggVars, retryVars, bucketVars, genVars, balVars, adjVars>>

\* analyze() with fewer than SMA_LONG + 5 klines: _defaultAdjustment, the
\* controller and the cooling counter are not touched.
AnalyzeShort ==
    /\ lastEval' = [lastEval EXCEPT !.short = TRUE, !.state = current_state,
                                    !.shouldPause = FALSE]
    /\ UNCHANGED <<current_state, state_buffer, coolingRemaining, prevRaw, exitAge>>
    /\ UNCHANGED <<supVars, gridVars, panicVars, aggVars, retryVars, bucketVars, genVars, balVars, adjVars>>

NextAnalyzer ==
    \/ \E rsi \in RsiValues, sma \in SmaRelations, atrHigh \in BOOLEAN,
          isHighVolume \in BOOLEAN, smallRsiOk \in BOOLEAN :
          Analyze(rsi, sma, atrHigh, isHighVolume, smallRsiOk)
    \/ AnalyzeShort

(***************************************************************************)
(* The retry wrapper (retryOnError) around an operation of the exchange    *)
(* client. The wrapper is cut at its awaits: the wrapped function, the     *)
(* time-sync callback and the sleep before the next attempt.               *)
(***************************************************************************)
RETRYABLE_ERRORS == {-1021, -1003, -1015}
NON_RETRYABLE_ERRORS == {-2010, -1013, -1121, -2015}
\* The codes the exchange answers with: the classified ones and one that is
\* not classified (-1100, illegal characters in a parameter).
ApiCodes == RETRYABLE_ERRORS \cup NON_RETRYABLE_ERRORS \cup {-1100}

\* A classification without permanent codes: every classified code is retried.
classifyAllRetryable(code) ==
    IF code \in RETRYABLE_ERRORS \cup NON_RETRYABLE_ERRORS THEN "retryable"
    ELSE "unknown"

classifyError(code) ==
    IF code \in RETRYABLE_ERRORS THEN "retryable"
    ELSE IF code \in NON_RETRYABLE_ERRORS THEN "skip"
    ELSE "unknown"

\* The wrapped operations: two REST operations of BinanceClient and the
\* operation of the test suite that is wrapped with a time-sync callback.
ClientOps == {"createLimitOrder", "getAccountInfo"}
RetryOps == ClientOps \cup {"timeSyncFail"}

\* The decorator arguments of each operation.
maxRetries(op) ==
    CASE op = "createLimitOrder" -> 2
      [] op = "getAccountInfo" -> 3
      [] op = "timeSyncFail" -> 2

\* TRUE when the decorator was given an onTimeSyncError callback.
onTimeSyncError(op) == op = "timeSyncFail"

\* The subclasses of ApiError and the exceptions of the network clause.
ApiErrorClasses == {"ApiError", "InsufficientBalanceError", "InvalidOrderError"}
NetworkErrorClasses == {"ConnectionError"}

NoException == [cls |-> "none", code |-> 0]
Returned == [cls |-> "ok", code |-> 0]

\* _toBinanceApiError: the exception a BinanceAPIException is converted to.
toBinanceApiError(code) ==
    IF code = -2010 THEN [cls |-> "InsufficientBalanceError", code |-> -2010]
    ELSE IF code = -1013 THEN [cls |-> "InvalidOrderError", code |-> -1013]
    ELSE [cls |-> "ApiError", code |-> code]

\* What one invocation of the wrapped function ends with: its return, an
\* API error, a network error, or an exception the wrapper does not catch.
Outcomes(op) ==
    {Returned}
    \cup {IF op \in ClientOps THEN toBinanceApiError(code)
          ELSE [cls |-> "ApiError", code |-> code] : code \in ApiCodes}
    \cup {[cls |-> "ConnectionError", code |-> 0],
          [cls |-> "BinanceRequestException", code |-> 0]}

InitRetry ==
    retry = [pc |-> "idle", op |-> "none", attempt |-> 0, calls |-> 0,
             log |-> <<>>, syncs |-> 0, synced |-> FALSE,
             lastException |-> NoException, raised |-> NoException]

\* A caller invokes the wrapped operation: the first attempt begins.
RetryCall(op) ==
    /\ retry.pc \in {"idle", "returned", "raised"}
    /\ retry' = [pc |-> "calling", op |-> op, attempt |-> 1, calls |-> 0,
                 log |-> <<>>, syncs |-> 0, synced |-> FALSE,
                 lastException |-> NoException, raised |-> NoException]
    /\ UNCHANGED <<supVars, gridVars, panicVars, aggVars, anaVars, bucketVars, genVars, balVars, adjVars>>

\* await func(...) ends with out; the wrapper runs to its next await, to
\* its return or to the raise.
RetryAttempt(out) ==
    /\ retry.pc = "calling"
    /\ out \in Outcomes(retry.op)
    /\ LET r == [retry EXCEPT !.calls = @ + 1, !.log = Append(@, out)]
           e == [r EXCEPT !.lastException = out, !.synced = FALSE]
       IN retry' =
            IF out = Returned THEN [r EXCEPT !.pc = "returned"]
            ELSE IF out.cls \in ApiErrorClasses THEN
                LET errorType == classifyError(out.code)
                IN IF errorType = "skip"
                       THEN [e EXCEPT !.pc = "raised", !.raised = out]
                   ELSE IF errorType = "retryable"
                       THEN IF out.code = -1021 /\ onTimeSyncError(r.op)
                                THEN [e EXCEPT !.pc = "syncing"]
                                ELSE [e EXCEPT !.pc = "sleeping"]
                   ELSE IF r.attempt < maxRetries(r.op)
                       THEN [e EXCEPT !.pc = "sleeping"]
                       ELSE [e EXCEPT !.pc = "raised", !.raised = out]
            ELSE IF out.cls \in NetworkErrorClasses
                THEN [e EXCEPT !.pc = "sleeping"]
            ELSE [r EXCEPT !.pc = "raised", !.raised = out]
    /\ UNCHANGED <<supVars, gridVars, panicVars, aggVars, anaVars, bucketVars, genVars, balVars, adjVars>>

\* await onTimeSyncError() ends; an exception of the callback is logged.
RetrySync(ok) ==
    /\ retry.pc = "syncing"
    /\ retry' = [retry EXCEPT !.pc = "sleeping", !.syncs = @ + 1, !.synced = TRUE]
    /\ UNCHANGED <<supVars, gridVars, panicVars, aggVars, anaVars, bucketVars, genVars, balVars, adjVars>>

\* A sleep that allows one attempt more than maxRetries.
RetrySleepOnceMore ==
    /\ retry.pc = "sleeping"
    /\ retry' = IF retry.attempt <= maxRetries(retry.op)
                    THEN [retry EXCEPT !.pc = "calling", !.attempt = @ + 1]
                    ELSE [retry EXCEPT !.pc = "raised", !.raised = retry.lastException]
    /\ UNCHANGED <<supVars, gridVars, panicVars, aggVars, anaVars, bucketVars, genVars, balVars, adjVars>>

\* await asyncio.sleep(delay) ends: continue with the next attempt, or
\* raise the last exception when the attempts are used up.
RetrySleep ==
    /\ retry.pc = "sleeping"
    /\ retry' = IF retry.attempt < maxRetries(retry.op)
                    THEN [retry EXCEPT !.pc = "calling", !.attempt = @ + 1]
                    ELSE [retry EXCEPT !.pc = "raised", !.raised = retry.lastException]
    /\ UNCHANGED <<supVars, gridVars, panicVars, aggVars, anaVars, bucketVars, genVars, balVars, adjVars>>

NextRetry ==
    \/ \E op \in RetryOps : RetryCall(op)
    \/ \E op \in RetryOps : \E out \in Outcomes(op) : RetryAttempt(out)
    \/ \E ok \in BOOLEAN : RetrySync(ok)
    \/ RetrySleep

\* Every await of the wrapper ends: the wrapped function answers or fails,
\* the time-sync callback returns or raises, the sleep elapses.
FairRetry ==
    /\ WF_vars(\E op \in RetryOps : \E out \in Outcomes(op) : RetryAttempt(out))
    /\ WF_vars(\E ok \in BOOLEAN : RetrySync(ok))
    /\ WF_vars(RetrySleep)

(***************************************************************************)
(* RateLimiter: two TokenBuckets, each with an asyncio.Lock that a caller  *)
(* holds through its sleep. Tokens are whole; each bucket has its own      *)
(* clock, counted in the time its refill takes to add one token.           *)
(*   queued    waiting for _lock                                           *)
(*   sleeping  in asyncio.sleep(waitTime), holding _lock                   *)
(***************************************************************************)
Buckets == {"weight", "order"}
BucketCallers == 1..NumCallers

\* RateLimiter.__init__: the capacities of weightBucket and orderBucket.
capacity(b) == IF b = "weight" THEN weightCapacity ELSE orderCapacity

\* refillRate: tokens added per time unit of the bucket's clock.
refillRate(b) == 1

\* Beyond this time since _lastRefill a refill fills the bucket.
MaxElapsed(b) == capacity(b) \div refillRate(b)

AcqIdle == [pc |-> "idle", bucket |-> "none", cost |-> 0, rem |-> 0,
            queued |-> FALSE, slept |-> FALSE]

InitBucket ==
    /\ bucket = [b \in Buckets |->
                    [tokens |-> capacity(b), elapsed |-> 0, owner |-> 0, waiters |-> <<>>]]
    /\ acq = [c \in BucketCallers |-> AcqIdle]

\* _refill: min(capacity, _tokens + elapsed * refillRate), _lastRefill = now
refill(b, bk) ==
    [bk EXCEPT !.tokens = Min(capacity(b), @ + bk.elapsed * refillRate(b)),
               !.elapsed = 0]

\* A lock that its holder keeps when it leaves the with block.
releaseNever(bk) == bk

\* The exit of `async with self._lock`, by return or by an exception.
release(bk) == [bk EXCEPT !.owner = 0]

\* deficit / refillRate, in whole time units
waitTime(b, deficit) == (deficit + refillRate(b) - 1) \div refillRate(b)

\* acquire(cost) called by c: the lock is taken at once when it is free and
\* nobody waits for it, otherwise c joins the waiters.
Acquire(c, b, cost) ==
    /\ acq[c].pc = "idle"
    /\ LET bk == bucket[b]
           free == bk.owner = 0 /\ bk.waiters = <<>>
           r == refill(b, bk)
       IN IF free
          THEN IF r.tokens >= cost
               THEN /\ bucket' = [bucket EXCEPT ![b] =
                                     release([r EXCEPT !.tokens = @ - cost, !.owner = c])]
                    /\ acq' = [acq EXCEPT ![c] = [AcqIdle EXCEPT !.pc = "returned",
                                                   !.bucket = b, !.cost = cost]]
               ELSE /\ bucket' = [bucket EXCEPT ![b] = [r EXCEPT !.owner = c]]
                    /\ acq' = [acq EXCEPT ![c] = [AcqIdle EXCEPT !.pc = "sleeping",
                                   !.bucket = b, !.cost = cost, !.slept = TRUE,
                                   !.rem = waitTime(b, cost - r.tokens)]]
          ELSE /\ bucket' = [bucket EXCEPT ![b].waiters = Append(@, c)]
               /\ acq' = [acq EXCEPT ![c] = [AcqIdle EXCEPT !.pc = "queued",
                                   !.bucket = b, !.cost = cost, !.queued = TRUE]]
    /\ UNCHANGED <<supVars, gridVars, panicVars, aggVars, anaVars, retryVars, genVars, balVars, adjVars>>

\* RateLimiter.acquireWeight(weight), with weight at most the capacity
acquireWeight(c, weight) == Acquire(c, "weight", weight)

\* RateLimiter.acquireOrderSlot()
acquireOrderSlot(c) == Acquire(c, "order", 1)

\* The lock of b is free and its first waiter takes it and runs the body of
\* acquire to the return or to the sleep.
LockGranted(b) ==
    /\ bucket[b].owner = 0
    /\ bucket[b].waiters # <<>>
    /\ LET c == Head(bucket[b].waiters)
           r == [refill(b, bucket[b]) EXCEPT !.waiters = Tail(@)]
           cost == acq[c].cost
       IN IF r.tokens >= cost
          THEN /\ bucket' = [bucket EXCEPT ![b] =
                                release([r EXCEPT !.tokens = @ - cost, !.owner = c])]
               /\ acq' = [acq EXCEPT ![c].pc = "returned"]
          ELSE /\ bucket' = [bucket EXCEPT ![b] = [r EXCEPT !.owner = c]]
               /\ acq' = [acq EXCEPT ![c].pc = "sleeping", ![c].slept = TRUE,
                                     ![c].rem = waitTime(b, cost - r.tokens)]
    /\ UNCHANGED <<supVars, gridVars, panicVars, aggVars, anaVars, retryVars, genVars, balVars, adjVars>>

\* The sleep of c is over: _refill, _tokens -= cost, the lock is released.
SleepDone(c) ==
    /\ acq[c].pc = "sleeping"
    /\ acq[c].rem = 0
    /\ LET b == acq[c].bucket
           r == refill(b, bucket[b])
       IN bucket' = [bucket EXCEPT ![b] = release([r EXCEPT !.tokens = @ - acq[c].cost])]
    /\ acq' = [acq EXCEPT ![c].pc = "returned"]
    /\ UNCHANGED <<supVars, gridVars, panicVars, aggVars, anaVars, retryVars, genVars, balVars, adjVars>>

\* The task of c is cancelled while it waits for the lock or sleeps in the
\* with block.
CancelCaller(c) ==
    /\ acq[c].pc \in {"queued", "sleeping"}
    /\ Cardinality({d \in BucketCallers : acq[d].pc = "cancelled"}) < MaxCancels
    /\ LET b == acq[c].bucket
           w == bucket[b].waiters
       IN bucket' = IF acq[c].pc = "sleeping"
                    THEN [bucket EXCEPT ![b] = release(@)]
                    ELSE [bucket EXCEPT ![b].waiters =
                            SelectSeq(w, LAMBDA d : d # c)]
    /\ acq' = [acq EXCEPT ![c].pc = "cancelled"]
    /\ UNCHANGED <<supVars, gridVars, panicVars, aggVars, anaVars, retryVars, genVars, balVars, adjVars>>

\* currentUsageRatio, read by the circuit-breaker check of the strategy:
\* a _refill outside the lock.
currentUsageRatio(b) ==
    /\ bucket[b].elapsed > 0
    /\ bucket' = [bucket EXCEPT ![b] = refill(b, @)]
    /\ UNCHANGED acq
    /\ UNCHANGED <<supVars, gridVars, panicVars, aggVars, anaVars, retryVars, genVars, balVars, adjVars>>

\* One time unit passes on the clock of b.
Elapse(b) ==
    /\ \/ bucket[b].elapsed < MaxElapsed(b)
       \/ \E c \in BucketCallers : acq[c].pc = "sleeping" /\ acq[c].bucket = b /\ acq[c].rem > 0
    /\ bucket' = [bucket EXCEPT ![b].elapsed = Min(@ + 1, MaxElapsed(b))]
    /\ acq' = [c \in BucketCallers |->
                 IF acq[c].pc = "sleeping" /\ acq[c].bucket = b /\ acq[c].rem > 0
                 THEN [acq[c] EXCEPT !.rem = @ - 1] ELSE acq[c]]
    /\ UNCHANGED <<supVars, gridVars, panicVars, aggVars, anaVars, retryVars, genVars, balVars, adjVars>>

NextBucket ==
    \/ \E c \in BucketCallers, weight \in 1..weightCapacity : acquireWeight(c, weight)
    \/ \E c \in BucketCallers : acquireOrderSlot(c)
    \/ \E b \in Buckets : LockGranted(b)
    \/ \E c \in BucketCallers : SleepDone(c)
    \/ \E c \in BucketCallers : CancelCaller(c)
    \/ \E b \in Buckets : currentUsageRatio(b)
    \/ \E b \in Buckets : Elapse(b)

\* The event loop runs a task whose lock was granted or whose timer is due,
\* and the clocks go on.
FairBucket ==
    /\ \A b \in Buckets : WF_vars(LockGranted(b))
    /\ \A c \in BucketCallers : WF_vars(SleepDone(c))
    /\ \A b \in Buckets : WF_vars(Elapse(b))

(***************************************************************************)
(* decimal.Decimal: a coefficient and an exponent, value c * 10^e, under   *)
(* a context of DecimalPrec significant digits and ROUND_HALF_EVEN. Every  *)
(* operation computes the exact result and rounds it to the context.       *)
(* The values here are positive.                                           *)
(***************************************************************************)
Dec(c, e) == [c |-> c, e |-> e]

RECURSIVE Digits(_)
Digits(c) == IF c < 10 THEN 1 ELSE 1 + Digits(c \div 10)

\* The context rounding of an exact result c * 10^e.
DecRound(c, e) ==
    IF Digits(c) <= DecimalPrec THEN Dec(c, e)
    ELSE LET shift == Digits(c) - DecimalPrec
             q == c \div (10 ^ shift)
             r == c % (10 ^ shift)
             half == 5 * 10 ^ (shift - 1)
             up == r > half \/ (r = half /\ q % 2 = 1)
             q1 == IF up THEN q + 1 ELSE q
         IN IF q1 = 10 ^ DecimalPrec
            THEN Dec(q1 \div 10, e + shift + 1)
            ELSE Dec(q1, e + shift)

\* The coefficient of d at the exponent m, m at most the exponent of d.
Scaled(d, m) == d.c * 10 ^ (d.e - m)

DecAdd(a, b) ==
    LET m == Min(a.e, b.e) IN DecRound(Scaled(a, m) + Scaled(b, m), m)

\* a - b for a > b
DecSub(a, b) ==
    LET m == Min(a.e, b.e) IN DecRound(Scaled(a, m) - Scaled(b, m), m)

DecMul(a, b) == DecRound(a.c * b.c, a.e + b.e)

\* a / n for a whole n: the quotient is computed with two digits more than
\* the context keeps, a remainder makes the last of them odd, and the
\* result is rounded.
DecDivInt(a, n) ==
    LET s == DecimalPrec + 2
        num == a.c * 10 ^ s
        q == num \div n
        sticky == IF num % n # 0 /\ q % 10 \in {0, 5} THEN q + 1 ELSE q
    IN DecRound(sticky, a.e - s)

\* Decimal equality: equality of the values.
DecEq(a, b) == LET m == Min(a.e, b.e) IN Scaled(a, m) = Scaled(b, m)

\* generateGrid for the settings lower, upper, count:
\*   step = (upper - lower) / count
\*   _gridPrices = [lower + step * i for i in range(count + 1)]
generateGridFor(lower, upper, count) ==
    LET step == DecDivInt(DecSub(upper, lower), count)
    IN [i \in 1..(count + 1) |-> DecAdd(lower, DecMul(step, Dec(i - 1, 0)))]

\* The settings the model calls generateGrid with: bounds of one digit,
\* in units and in hundreds, and from two intervals up.
GridBoundValues == {Dec(c, e) : c \in 1..MaxGridBound, e \in {0, 2}}
GridCountValues == 2..MaxGridCount

NoGrid == [called |-> FALSE, lower |-> Dec(0, 0), upper |-> Dec(0, 0), count |-> 0,
           prices |-> <<>>]

InitGen == gen = NoGrid

\* A strategy is constructed with the settings and generateGrid is called.
GenerateGridCall(lower, upper, count) ==
    /\ lower.e = upper.e /\ lower.c < upper.c
    /\ gen' = [called |-> TRUE, lower |-> lower, upper |-> upper, count |-> count,
               prices |-> generateGridFor(lower, upper, count)]
    /\ UNCHANGED <<supVars, gridVars, panicVars, aggVars, anaVars, retryVars, bucketVars, balVars, adjVars>>

NextGen ==
    \E lower \in GridBoundValues, upper \in GridBoundValues, count \in GridCountValues :
        GenerateGridCall(lower, upper, count)

(***************************************************************************)
(* BinanceClient.getFreeBalance and the balance snapshot. The snapshot is  *)
(* written by _syncBalances (REST) and by the user-data stream             *)
(* (outboundAccountPosition); time is counted in units of 30 s.            *)
(*   idle        no call in progress                                       *)
(*   sync_stale  awaiting _syncBalances after the staleness check          *)
(*   sync_empty  awaiting _syncBalances because the asset is not cached    *)
(*   returned    the call has returned fb.ret                              *)
(***************************************************************************)
\* Free balances the exchange may report.
BalanceValues == {0, 5}

\* The snapshot after construction: _balances = {}, _lastBalanceUpdate = 0.
NoSnapshot == [present |-> FALSE, free |-> 0, updated |-> FALSE, age |-> 0]

FbIdle == [pc |-> "idle", ret |-> 0, retAge |-> 0, cached |-> FALSE]

InitBalance == snapshot = NoSnapshot /\ fb = FbIdle

\* staleness > BALANCE_STALE_TIMEOUT, for a snapshot that was ever updated.
IsStale(snap) == snap.updated /\ snap.age > BALANCE_STALE_TIMEOUT

\* _syncBalances: getAccountInfo returned (the asset is among the balances
\* with free value v, or it is not listed) or raised; an exception is
\* logged and the snapshot stays as it was.
syncBalances(snap, ok, listed, v) ==
    IF ~ok THEN snap
    ELSE [present |-> snap.present \/ listed,
          free |-> IF listed THEN v ELSE snap.free,
          updated |-> TRUE, age |-> 0]

\* return self._balances[asset] / self._balances.get(asset, Decimal("0"))
ReturnFrom(snap) ==
    [pc |-> "returned", ret |-> IF snap.present THEN snap.free ELSE 0,
     retAge |-> snap.age, cached |-> snap.present]

\* getFreeBalance up to its first await, or to its return when the cached
\* value is used without a request.
GetFreeBalanceCall ==
    /\ fb.pc = "idle"
    /\ fb' = IF IsStale(snapshot) THEN [FbIdle EXCEPT !.pc = "sync_stale"]
             ELSE IF snapshot.present THEN ReturnFrom(snapshot)
             ELSE [FbIdle EXCEPT !.pc = "sync_empty"]
    /\ UNCHANGED snapshot
    /\ UNCHANGED <<supVars, gridVars, panicVars, aggVars, anaVars, retryVars, bucketVars, genVars, adjVars>>

\* The _syncBalances awaited by getFreeBalance is over.
FreeBalanceSynced(ok, listed, v) ==
    /\ fb.pc \in {"sync_stale", "sync_empty"}
    /\ LET snap == syncBalances(snapshot, ok, listed, v) IN
       /\ snapshot' = snap
       /\ fb' = IF fb.pc = "sync_stale" /\ ~snap.present
                THEN [FbIdle EXCEPT !.pc = "sync_empty"]
                ELSE ReturnFrom(snap)
    /\ UNCHANGED <<supVars, gridVars, panicVars, aggVars, anaVars, retryVars, bucketVars, genVars, adjVars>>

\* The caller has taken the value.
FreeBalanceTaken ==
    /\ fb.pc = "returned"
    /\ fb' = FbIdle
    /\ UNCHANGED snapshot
    /\ UNCHANGED <<supVars, gridVars, panicVars, aggVars, anaVars, retryVars, bucketVars, genVars, adjVars>>

\* outboundAccountPosition on the user-data stream: the listed assets are
\* written and _lastBalanceUpdate is set.
AccountPositionEvent(listed, v) ==
    /\ snapshot' = [present |-> snapshot.present \/ listed,
                    free |-> IF listed THEN v ELSE snapshot.free,
                    updated |-> TRUE, age |-> 0]
    /\ UNCHANGED fb
    /\ UNCHANGED <<supVars, gridVars, panicVars, aggVars, anaVars, retryVars, bucketVars, genVars, adjVars>>

\* 30 s pass; ages beyond the timeout are not told apart.
BalanceClock ==
    /\ snapshot.updated
    /\ snapshot.age <= BALANCE_STALE_TIMEOUT
    /\ snapshot' = [snapshot EXCEPT !.age = @ + 1]
    /\ UNCHANGED fb
    /\ UNCHANGED <<supVars, gridVars, panicVars, aggVars, anaVars, retryVars, bucketVars, genVars, adjVars>>

NextBalance ==
    \/ GetFreeBalanceCall
    \/ \E ok \in BOOLEAN, listed \in BOOLEAN, v \in BalanceValues : FreeBalanceSynced(ok, listed, v)
    \/ FreeBalanceTaken
    \/ \E listed \in BOOLEAN, v \in BalanceValues : AccountPositionEvent(listed, v)
    \/ BalanceClock


(***************************************************************************)
(* MarketAnalyzer._generateAdjustment and the tail of analyze that calls   *)
(* it. Multipliers are in thousandths (1.0 = 1000), ATR ratios in units of *)
(* 0.001 % (1 % = 1000), position ratios in percent, volume ratios in      *)
(* tenths; atr, suggestedStep and currentPrice share one price unit, and    *)
(* suggestedGridStep is in tenths of it.                                   *)
(***************************************************************************)
ATR_EXTREME_RATIO == 5000
FEE_SHIELD_RATIO == 200
ATR_STEP_MULTIPLIER == 1
decayMinMultiplier == 200

\* Indicator values analyze may compute from the klines it is given.
AdjRsi == {40, 50, 75}
AdjAtr == {0, 5, 10, 50, 200, 600}
AdjPrices == {10000, 20000}
AdjVolumeRatios == {10, 30}
PositionRatios == {0, 50, 90, 100}

NoEmitted == [called |-> FALSE, state |-> "none", densityMultiplier |-> 1000,
                 investmentMultiplier |-> 1000, shouldPause |-> FALSE,
                 suggestedGridStep |-> 0, atrRatio |-> 0, positionRatio |-> 0,
                 isMacroBullish |-> FALSE, shielded |-> FALSE]

InitAdjust == emitted = NoEmitted

\* _lowVolRangeAdjustment, _wideRangeAdjustment, _breakoutAdjustment,
\* _slowBleedAdjustment and _panicSellAdjustment: the multipliers of the recipe.
lowVolRangeAdjustment(atrRatio) ==
    [densityMultiplier |-> IF atrRatio < 300 THEN 2000
                           ELSE IF atrRatio < 500 THEN 1500 ELSE 1200,
     investmentMultiplier |-> 1000, shouldPause |-> FALSE]

wideRangeAdjustment ==
    [densityMultiplier |-> 700, investmentMultiplier |-> 1000, shouldPause |-> FALSE]

breakoutAdjustment ==
    [densityMultiplier |-> 800, investmentMultiplier |-> 700, shouldPause |-> FALSE]

slowBleedAdjustment ==
    [densityMultiplier |-> 600, investmentMultiplier |-> 500, shouldPause |-> TRUE]

panicSellAdjustment(volumeRatio) ==
    [densityMultiplier |-> 500,
     investmentMultiplier |-> IF volumeRatio > 20 THEN 1500 ELSE 1300,
     shouldPause |-> FALSE]

\* The density after the bull-market rules and the extreme-volatility cut.
DynamicDensity(base, rsi, atrRatio, isMacroBullish, isGoldenCross) ==
    LET bull == IF isMacroBullish /\ isGoldenCross THEN 1500
                ELSE IF isMacroBullish /\ rsi >= 45 /\ rsi <= 65
                     THEN (IF base > 1200 THEN base ELSE 1200)
                     ELSE base
    IN IF atrRatio > ATR_EXTREME_RATIO THEN (bull * 8) \div 10 ELSE bull

\* stepPercent < FEE_SHIELD_RATIO, for stepPercent = finalStep / density / currentPrice
\* (both sides multiplied by density * currentPrice / FEE_SHIELD_RATIO).
FeeShieldTriggers(finalStep, density, currentPrice) ==
    /\ finalStep # 0
    /\ currentPrice > 0
    /\ finalStep * 1000 * (100000 \div FEE_SHIELD_RATIO) < density * currentPrice

\* density = finalStep / (currentPrice * FEE_SHIELD_RATIO)
FeeShieldDensity(finalStep, currentPrice) ==
    (finalStep * 1000 * (100000 \div FEE_SHIELD_RATIO)) \div currentPrice

generateAdjustment(state, rsi, atrRatio, volumeRatio, suggestedStep, isMacroBullish, positionRatio, isGoldenCross, currentPrice) ==
    LET adj == CASE state = "LOW_VOL_RANGE" -> lowVolRangeAdjustment(atrRatio)
                 [] state = "WIDE_RANGE" -> wideRangeAdjustment
                 [] state = "STRONG_BREAKOUT" -> breakoutAdjustment
                 [] state = "SLOW_BLEED" -> slowBleedAdjustment
                 [] OTHER -> panicSellAdjustment(volumeRatio)
        investment == IF isMacroBullish /\ state = "PANIC_SELL"
                      THEN 1800 ELSE adj.investmentMultiplier
        dynamic == DynamicDensity(adj.densityMultiplier, rsi, atrRatio,
                                  isMacroBullish, isGoldenCross)
        shield == FeeShieldTriggers(suggestedStep, dynamic, currentPrice)
        density == IF shield THEN FeeShieldDensity(suggestedStep, currentPrice)
                   ELSE dynamic
        finalStep == IF isMacroBullish THEN suggestedStep * 10 ELSE suggestedStep * 12
        maxInvest == IF isMacroBullish THEN 2000 ELSE 1000
        safetyMargin == 100 - positionRatio
        squared == (safetyMargin * safetyMargin) \div 10
        decayFactor == IF squared > decayMinMultiplier THEN squared
                       ELSE decayMinMultiplier
        decayed == (investment * decayFactor) \div 1000
    IN [called |-> TRUE, state |-> state, densityMultiplier |-> density,
        investmentMultiplier |-> IF decayed < maxInvest THEN decayed ELSE maxInvest,
        shouldPause |-> adj.shouldPause, suggestedGridStep |-> finalStep,
        atrRatio |-> atrRatio, positionRatio |-> positionRatio,
        isMacroBullish |-> isMacroBullish, shielded |-> shield]

\* analyze on too few klines: _defaultAdjustment.
AnalyzeDefault ==
    /\ ~emitted.called
    /\ emitted' = [NoEmitted EXCEPT !.called = TRUE, !.state = "LOW_VOL_RANGE"]
    /\ UNCHANGED <<supVars, gridVars, panicVars, aggVars, anaVars, retryVars,
                   bucketVars, genVars, balVars>>

\* analyze from step 5 on: the confirmed state and the indicators go through
\* _generateAdjustment, and a cooling period forces shouldPause.
AnalyzeAdjustment(state, rsi, atr, volumeRatio, isMacroBullish, positionRatio, isGoldenCross, currentPrice, cooling) ==
    /\ ~emitted.called
    /\ LET atrRatio == IF currentPrice > 0 THEN (atr * 100000) \div currentPrice ELSE 0
           suggestedStep == atr * ATR_STEP_MULTIPLIER
           adjustment == generateAdjustment(state, rsi, atrRatio, volumeRatio,
                             suggestedStep, isMacroBullish, positionRatio,
                             isGoldenCross, currentPrice)
       IN emitted' = [adjustment EXCEPT !.shouldPause = @ \/ cooling]
    /\ UNCHANGED <<supVars, gridVars, panicVars, aggVars, anaVars, retryVars,
                   bucketVars, genVars, balVars>>

NextAdjust ==
    \/ AnalyzeDefault
    \/ \E state \in MarketState, rsi \in AdjRsi, atr \in AdjAtr,
          volumeRatio \in AdjVolumeRatios, isMacroBullish \in BOOLEAN,
          positionRatio \in PositionRatios, isGoldenCross \in BOOLEAN,
          currentPrice \in AdjPrices, cooling \in BOOLEAN :
            AnalyzeAdjustment(state, rsi, atr, volumeRatio, isMacroBullish,
                              positionRatio, isGoldenCross, currentPrice, cooling)


\* The variables outside the supervisor and the handlers after construction.
InitExt == InitPanic /\ InitAgg /\ InitAnalyzer /\ InitRetry /\ InitBucket /\ InitGen /\ InitBalance
           /\ InitAdjust

\* The state after construction of the supervisor and of one strategy.
Init == InitSup /\ InitGrid /\ InitExt

SpecGrid == Init /\ [][NextGrid]_vars

(***************************************************************************)
(* The supervisor specification.                                           *)
(***************************************************************************)
NextSup ==
    \/ \E b \in Bots, fixedProxy \in BOOLEAN : StartBotBegin(b, fixedProxy)
    \/ \E c \in Calls, is_ok \in BOOLEAN : StartBotGeo(c, is_ok)
    \/ \E c \in Calls, ok \in BOOLEAN : StartBotConnect(c, ok)
    \/ \E c \in Calls, restored \in BOOLEAN, p \in InitPrices,
          needBuy \in BOOLEAN, buyOk \in BOOLEAN, freeBalance \in InitBalances :
          StartBotInit(c, restored, p, needBuy, buyOk, freeBalance)
    \/ \E t \in Calls : TaskStart(t)
    \/ \E t \in Calls, adaptive \in BOOLEAN : TaskStreamFail(t, adaptive)
    \/ \E t \in Calls, adaptive \in BOOLEAN : TaskCancelled(t, adaptive)
    \/ \E t \in Calls : TaskStopReturns(t)
    \/ \E t \in Calls : TaskCleanupEnd(t)
    \/ \E b \in Bots : StopBotBegin(b)
    \/ \E s \in StopCalls : StopBotReturn(s)
    \/ KillSwitchReceive
    \/ \E b \in Bots : HaltStopBegin(b)
    \/ \E t \in Calls : HaltStopReturn(t)
    \/ StopAllBotsReturn
    \/ HaltBroadcast

\* The supervisor runs bots whose strategy has adaptive mode off.
InitFixed == Init /\ ~adaptiveMode

Spec == InitFixed /\ [][NextSup]_vars

SpecPanic == InitFixed /\ [][NextPanic]_vars

SpecAgg == InitFixed /\ [][NextAgg]_vars

SpecAnalyzer == InitFixed /\ [][NextAnalyzer]_vars

SpecRetry == InitFixed /\ [][NextRetry]_vars

\* The retry wrapper with every await ending.
SpecRetryLive == InitFixed /\ [][NextRetry]_vars /\ FairRetry

SpecBucket == InitFixed /\ [][NextBucket]_vars /\ FairBucket

SpecGen == InitFixed /\ [][NextGen]_vars

SpecBalance == InitFixed /\ [][NextBalance]_vars

SpecAdjust == InitFixed /\ [][NextAdjust]_vars

(***************************************************************************)
(* Claims about the supervisor, checked under Spec.                        *)
(***************************************************************************)
\* The supervisor tasks of bot b that exist and are not done.
LiveTasks(b) == {t \in Calls : start_calls[t].bot = b /\ tasks[t].pc \notin {"none", "done"}}

\* The cleanup of _run_bot_loop is complete for task t: strategy.stop() and
\* client.disconnect() were called, an auto-assigned proxy was released and
\* the bot is no longer registered with this task.
CleanedUp(t) ==
    /\ tasks[t].stopCalled
    /\ tasks[t].disconnectCalled
    /\ start_calls[t].is_auto_proxy => tasks[t].released
    /\ active_bots[start_calls[t].bot].task # t

\* C1: for every bot_id at most one supervisor task that is not done exists
\* at any time, also when start_bot calls for the same bot_id overlap at
\* their suspension points.
C1_SingleInstance == \A b \in Bots : Cardinality(LiveTasks(b)) <= 1

\* C2: whenever a supervisor task has ended, strategy.stop() and
\* client.disconnect() have both been called, an auto-assigned proxy has
\* been released and the bot has been removed from active_bots; a stop_bot
\* that returned true returned after that cleanup, and it returns true
\* exactly when an instance was registered.
C2_CleanupOnExit ==
    /\ \A t \in Calls : TaskDone(t) => CleanedUp(t)
    /\ \A s \in StopCalls : stop_calls[s].pc = "returned" =>
          /\ (stop_calls[s].ret = "true") = (stop_calls[s].task # 0)
          /\ stop_calls[s].ret = "true" => CleanedUp(stop_calls[s].task)

\* C3: once the SYSTEM_ALERT of a HALT_ALL has been broadcast, every bot
\* that was in active_bots when the message was received is removed from
\* active_bots and its strategy is not running.
C3_HaltStopsAll ==
    halt.pc = "alerted" =>
        \A t \in halt.targets :
            /\ active_bots[start_calls[t].bot].task # t
            /\ ~strategy_running[t]

\* C10: a start_bot whose initialize fetched a price outside [lower, upper]
\* has issued no bootstrap buy, leaves the strategy not running, does not
\* return true and does not keep the bot registered.
C10_GapAbortsStart ==
    \A c \in Calls :
        start_calls[c].pc = "returned" /\ start_calls[c].outOfRange =>
            /\ start_calls[c].ret = "false"
            /\ ~start_calls[c].bootBuy
            /\ ~strategy_running[c]
            /\ active_bots[start_calls[c].bot].task # c


(***************************************************************************)
(* Claims about the strategy, checked under SpecGrid.                      *)
(***************************************************************************)
\* C4: in every reachable state the number of PENDING entries of the order
\* book (BUY, sell-wall and companion SELL alike) is at most maxOrderCount.
C4_PendingCeiling == PendingCount(orders) <= maxOrderCount

\* The step in which on_order_update processes FILLED for the SELL at p.
SellFillStep(p) ==
    /\ p \in DOMAIN orders /\ p \in DOMAIN orders'
    /\ orders[p].side = "SELL" /\ orders[p].status = "PENDING"
    /\ orders'[p].status = "FILLED"

\* C5: every SELL fill processed by on_order_update strictly increases
\* realizedProfit, by exactly (fill price - entry price) * quantity, and no
\* step decreases realizedProfit.
C5_SellFillProfit ==
    [][ /\ realizedProfit' >= realizedProfit
        /\ \A p \in OrderPrices : SellFillStep(p) =>
              /\ realizedProfit' > realizedProfit
              /\ realizedProfit' = realizedProfit + (p - orders[p].entryPrice) * orders[p].quantity
      ]_vars

\* The grid line above price p, or p + step at the top of the grid.
OneLineAbove(p) ==
    LET above == {i \in DOMAIN gridPrices : gridPrices[i] > p} IN
    IF above = {} THEN p + baseStep
    ELSE gridPrices[CHOOSE i \in above : \A j \in above : i <= j]

\* C6: the companion SELL of a filled BUY is submitted one grid line above
\* the BUY's price (buy price + step at the top), hence strictly above it,
\* with the buy fill price as entry price, whatever the density multiplier.
C6_CompanionAbove ==
    ord.pc = "sell_sent" =>
        /\ ord.sellPrice > ord.buyPrice
        /\ ord.sellPrice = OneLineAbove(ord.buyPrice)

\* C7: a tick received while running at or below the stop price, or with
\* the realized profit at the target, fires the emergency exit: running is
\* false, cancel-all was requested, and the tick neither evaluates the grid
\* nor submits a limit order.
C7_RiskGateExits ==
    tickLog.trigger =>
        /\ tickLog.exit
        /\ ~running
        /\ tickLog.cancelAll
        /\ ~tickLog.evaluated
        /\ ~tickLog.submitted

\* A take-profit tick at a price inside the grid has completed its exit.
C7_Witness ==
    /\ tickLog.trigger /\ tickLog.exit /\ tickLog.price = 45
    /\ tick.pc = "idle"

\* C8: after an emergency exit, a tick that satisfies a risk-gate condition
\* changes no state of the strategy, requests no cancel-all and no market
\* sell, submits nothing, and running stays false.
C8_ExitedTickNoOp ==
    [][ (tick.pc = "idle" /\ tickLog' # tickLog /\ exited /\ RiskGateHolds(tickLog'.price)) =>
          /\ strategyVars' = strategyVars
          /\ nOrders' = nOrders
          /\ ~tickLog'.cancelAll /\ ~tickLog'.marketSell
          /\ ~running'
      ]_vars

\* A tick at the stop price was ignored after the emergency exit.
C8_Witness == exited /\ tickLog.ignored /\ tickLog.price = 18 /\ ~running

\* C9: a limit order is submitted only when at least cooldownSeconds have
\* passed since the previous submission of the strategy.
C9_Cooldown ==
    [][ nOrders' # nOrders => (nOrders = 0 \/ submitAge >= cooldownSeconds) ]_vars

(***************************************************************************)
(* Claims about panic_close.                                               *)
(***************************************************************************)
\* C11: whenever panic_close returns with status success the local order
\* book is empty and running is false, and whenever it rejects because the
\* sellable notional is below min_notional no market order has been sent.
C11_PanicCloseResult ==
    [][ /\ (panic.result # "success" /\ panic'.result = "success")
             => (orders' = EmptyBook /\ ~running')
        /\ (panic'.reason = "min_notional" => ~panic'.marketSent) ]_vars

(***************************************************************************)
(* Claims about the stream aggregator.                                     *)
(***************************************************************************)
\* The reader tasks of key k that have not ended and are not cancelled.
LiveReaders(k) ==
    {t \in ReaderIds : readers[t].key = k /\ readers[t].pc \in {"created", "reading"}}

\* The callbacks the registry holds for key k.
SubscribersNow(k) == IF Registry(k)[k].present THEN Registry(k)[k].callbacks ELSE {}

\* C12: between the subscribe and unsubscribe calls, in both registries, a
\* key with a non-empty callback set has exactly one reader task, a key
\* without callbacks has no reader and is not in the registry.
C12_OneReaderPerKey ==
    aggCall.pc = "idle" =>
        \A k \in AggKeys :
            /\ Registry(k)[k].present => Registry(k)[k].callbacks # {}
            /\ IF SubscribersNow(k) # {}
               THEN Cardinality(LiveReaders(k)) = 1
               ELSE LiveReaders(k) = {}

\* C13: a frame received on a key creates exactly one callback task for
\* every callback subscribed to the key at that moment and none for any
\* other callback; with no subscriber left nothing is dispatched.
C13_DispatchOnce ==
    [][ nFrames' # nFrames =>
          LET k == dispatched'[Len(dispatched')].key
              created == {i \in (Len(cbTasks) + 1)..Len(cbTasks') : cbTasks'[i].frame = nFrames'}
          IN /\ created = (Len(cbTasks) + 1)..Len(cbTasks')
             /\ \A cb \in AggCallbacks :
                  Cardinality({i \in created : cbTasks'[i].cb = cb /\ cbTasks'[i].key = k})
                      = IF cb \in SubscribersNow(k) THEN 1 ELSE 0 ]_vars

\* Two callbacks got the first frame of a key, and after one of them was
\* unsubscribed only the other one got the second frame.
C13_Witness ==
    /\ Len(dispatched) = 2
    /\ dispatched[1].key = dispatched[2].key
    /\ dispatched[1].to = {"A", "B"}
    /\ dispatched[2].to = {"B"}
    /\ handled["B"] = <<[key |-> dispatched[1].key, frame |-> 1],
                        [key |-> dispatched[1].key, frame |-> 2]>>

\* C14: for every callback, the events of one key complete their handling
\* in the order in which the aggregator received them.
C14_OrderPreserved ==
    \A cb \in AggCallbacks :
        \A i, j \in 1..Len(handled[cb]) :
            (i < j /\ handled[cb][i].key = handled[cb][j].key)
                => handled[cb][i].frame < handled[cb][j].frame

(***************************************************************************)
(* Claims about the market analyzer.                                       *)
(***************************************************************************)
\* C15: an evaluation whose raw regime is SLOW_BLEED or PANIC_SELL emits
\* that regime as the confirmed regime, whatever the previous confirmed
\* regime and the confirmation buffer were.
C15_DangerImmediate ==
    (~lastEval.short /\ lastEval.raw \in {"SLOW_BLEED", "PANIC_SELL"})
        => lastEval.state = lastEval.raw

\* An evaluation entered SLOW_BLEED from LOW_VOL_RANGE while a confirmation
\* was pending in the buffer.
C15_Witness ==
    /\ ~lastEval.short
    /\ lastEval.raw = "SLOW_BLEED"
    /\ lastEval.prev = "LOW_VOL_RANGE"
    /\ lastEval.buffered = 1
    /\ lastEval.state = "SLOW_BLEED"

\* The latest evaluation computed a non-danger raw regime that differs from
\* the confirmed regime it found.
DifferentCalmRaw ==
    /\ ~lastEval.short
    /\ lastEval.raw \notin {"SLOW_BLEED", "PANIC_SELL"}
    /\ lastEval.raw # lastEval.prev

\* C16: an evaluation whose raw regime is a different non-danger regime
\* leaves the confirmed regime unchanged when the evaluation before it had
\* another raw regime, and switches to the raw regime when the evaluation
\* before it had the same raw regime.
C16_TwoSamplesConfirm ==
    DifferentCalmRaw =>
        IF prevRaw = lastEval.raw
        THEN lastEval.state = lastEval.raw
        ELSE lastEval.state = lastEval.prev

\* C17: the adjustments of the three evaluations that follow the evaluation
\* at which the confirmed regime left SLOW_BLEED or PANIC_SELL all have
\* shouldPause = true.
C17_CoolingPauses ==
    (~lastEval.short /\ exitAge \in 1..3) => lastEval.shouldPause

\* C18: an evaluation that finds the regime PANIC_SELL emits PANIC_SELL
\* when its RSI is at or below 28 and another regime when its RSI is above
\* 28.
C18_PanicExitAtThreshold ==
    (~lastEval.short /\ lastEval.prev = "PANIC_SELL") =>
        IF lastEval.rsi <= 28
        THEN lastEval.state = "PANIC_SELL"
        ELSE lastEval.state # "PANIC_SELL"

\* C18, as the code has it: an evaluation that finds the regime PANIC_SELL
\* emits PANIC_SELL when its RSI is at or below 28; with an RSI above 28
\* its raw regime is not PANIC_SELL, and the emitted regime is the raw
\* regime when that is SLOW_BLEED or when the evaluation before it had the
\* same raw regime.
C18_PanicExitConfirmed ==
    (~lastEval.short /\ lastEval.prev = "PANIC_SELL") =>
        IF lastEval.rsi <= 28
        THEN lastEval.state = "PANIC_SELL"
        ELSE /\ lastEval.raw # "PANIC_SELL"
             /\ lastEval.raw = "SLOW_BLEED" => lastEval.state = "SLOW_BLEED"
             /\ prevRaw = lastEval.raw => lastEval.state = lastEval.raw

\* A second consecutive evaluation with RSI 50 took the regime from
\* PANIC_SELL to LOW_VOL_RANGE.
C18_Witness ==
    /\ ~lastEval.short
    /\ lastEval.prev = "PANIC_SELL"
    /\ lastEval.rsi = 50
    /\ prevRaw = "LOW_VOL_RANGE"
    /\ lastEval.raw = "LOW_VOL_RANGE"
    /\ lastEval.state = "LOW_VOL_RANGE"

(***************************************************************************)
(* Claims about the retry wrapper, checked under SpecRetry.                *)
(***************************************************************************)
\* The invocations of the wrapped function that raised a permanent code.
PermanentRaises ==
    {i \in 1..Len(retry.log) : /\ retry.log[i].cls \in ApiErrorClasses
                               /\ retry.log[i].code \in NON_RETRYABLE_ERRORS}

C20_SkewResync ==
    (/\ retry.op \in ClientOps
     /\ retry.pc = "calling"
     /\ retry.log # <<>>
     /\ retry.log[Len(retry.log)].code = -1021)
        => retry.synced

(***************************************************************************)
(* Claims about the rate limiter, checked under SpecBucket.                *)
(***************************************************************************)
\* C21: every acquireWeight(n) with n at most the capacity and every
\* acquireOrderSlot() that has to wait, for the lock or for tokens, returns
\* in the end unless its caller is cancelled; there is no other way out of
\* the call.
C21_AcquireReturns ==
    \A c \in BucketCallers :
        (acq[c].pc \in {"queued", "sleeping"}) ~> (acq[c].pc \in {"returned", "cancelled"})

\* Two callers returned from the same bucket, one after it slept for tokens
\* and one after it waited for the lock behind the sleeper.
C21_Witness ==
    \E c, d \in BucketCallers :
        /\ c # d
        /\ acq[c].bucket = acq[d].bucket
        /\ acq[c].pc = "returned" /\ acq[c].slept
        /\ acq[d].pc = "returned" /\ acq[d].queued

(***************************************************************************)
(* Claims about generateGrid, checked under SpecGen.                       *)
(***************************************************************************)
\* The exponent all prices of the list can be compared at.
GridExp == gen.lower.e - 2 * DecimalPrec

\* C22: for lower < upper and a grid count of 2 or more, generateGrid returns
\* grid count + 1 prices, the first equal to lower, the last equal to upper,
\* and every two consecutive prices are the same distance apart.
C22_GridShape ==
    gen.called =>
        /\ Len(gen.prices) = gen.count + 1
        /\ DecEq(gen.prices[1], gen.lower)
        /\ DecEq(gen.prices[gen.count + 1], gen.upper)
        /\ \A i, j \in 1..gen.count :
              Scaled(gen.prices[i + 1], GridExp) - Scaled(gen.prices[i], GridExp)
                  = Scaled(gen.prices[j + 1], GridExp) - Scaled(gen.prices[j], GridExp)

(***************************************************************************)
(* Claims about the placements of the tick handler, checked under SpecGrid.*)
(***************************************************************************)
\* The highest line of the grid below the price p (0 when there is none).
NearestLineBelow(p) ==
    LET below == {i \in 1..Len(gridPrices) : gridPrices[i] < p}
    IN IF below = {} THEN 0
       ELSE gridPrices[CHOOSE i \in below : \A j \in below : j <= i]

\* C23: when the tick handler, on a tick at a price inside the grid, with an
\* empty order book and the unadjusted grid, submits a BUY (all placement
\* gates were open), the BUY is at the nearest grid line below the price and
\* its quantity is the investment per grid divided by that line's price.
C23_BuyAtNearestLine ==
    (/\ tick.pc = "sent" /\ tick.side = "BUY"
     /\ orders = EmptyBook
     /\ currentAdjustment = DefaultAdjustment
     /\ tick.currentPrice >= gridLowerPrice /\ tick.currentPrice <= gridUpperPrice)
        => /\ tick.checkPrice = NearestLineBelow(tick.currentPrice)
           /\ tick.quantity = formatQuantity(gridInvestmentPerGrid, tick.checkPrice)

\* C24: in every state of the strategy, the state file written by _saveState
\* and read back by _loadState gives the realized profit and the order book
\* of that state: the same price keys and, for each order, the same grid
\* index, price, side, quantity, order id, status and entry price.
C24_StateRoundTrip ==
    LET back == loadState(saveState)
    IN /\ back.realizedProfit = realizedProfit
       /\ back.orders = GridOrders(orders)

\* The state saved has a filled BUY, its companion SELL with an entry price,
\* and a realized profit that is not zero.
C24_Witness ==
    /\ realizedProfit # 0
    /\ \E p, q \in DOMAIN orders :
          /\ orders[p].side = "BUY" /\ orders[p].status = "FILLED"
          /\ orders[q].side = "SELL" /\ orders[q].entryPrice # 0

\* C25: once running is false no companion SELL is submitted: neither for a
\* FILLED event handled after running became false, nor by a companion
\* placement that was in its sleep when running became false.
C25_NoCompanionAfterStop ==
    [][~(~running /\ ord.pc # "sell_sent" /\ ord'.pc = "sell_sent")]_vars

(***************************************************************************)
(* C26: while the strategy is running, every BUY order that becomes FILLED *)
(* is eventually followed by a PENDING companion SELL for it in the order  *)
(* book. The companion of a fill is created only by the _placeSellOrder    *)
(* call of the FILLED event that marks the BUY, so the claim requires that *)
(* the step marking a BUY FILLED while running starts that placement: a    *)
(* handler that returns before it leaves the fill without companion        *)
(* whatever the balance and the exchange do afterwards.                    *)
(***************************************************************************)
\* The BUY at price p becomes FILLED in this step.
BuyBecomesFilled(p) ==
    /\ orders[p].side = "BUY" /\ orders[p].status = "PENDING"
    /\ p \in DOMAIN orders'
    /\ orders'[p].side = "BUY" /\ orders'[p].status = "FILLED"

C26_FilledBuyGetsCompanion ==
    [][\A p \in DOMAIN orders :
          running /\ BuyBecomesFilled(p)
              => ord'.pc = "sell_sleep" /\ ord'.buyPrice = p]_vars

(***************************************************************************)
(* C27: when a companion SELL is FILLED, exactly the sell order and the    *)
(* BUY that originated it are removed from the order book, no other        *)
(* order's entry is removed or changed, and the BUY's grid line is free    *)
(* for a new BUY afterwards. With the static grid the companion of a BUY   *)
(* carries the BUY's grid index and its price as entryPrice.               *)
(***************************************************************************)
\* The FILLED SELL whose removal is pending is the companion of a BUY of
\* the static grid.
CompanionFillPending ==
    /\ ~adaptiveMode
    /\ ord.pc = "publish"
    /\ ord.sellPrice \in DOMAIN orders
    /\ orders[ord.sellPrice].side = "SELL" /\ orders[ord.sellPrice].status = "FILLED"
    /\ orders[ord.sellPrice].entryPrice = ord.buyPrice
    /\ gridLowerPrice + orders[ord.sellPrice].gridIndex * baseStep = ord.buyPrice

C27_CompanionFillRemoval ==
    [][CompanionFillPending /\ ord'.pc = "idle"
          => /\ ord.sellPrice \notin DOMAIN orders'
             /\ \A q \in DOMAIN orders \ DOMAIN orders' :
                    \/ q = ord.sellPrice
                    \/ /\ q = ord.buyPrice
                       /\ orders[q].side = "BUY" /\ orders[q].status = "FILLED"
                       /\ orders[q].gridIndex = orders[ord.sellPrice].gridIndex
             /\ \A q \in DOMAIN orders' : q \in DOMAIN orders /\ orders'[q] = orders[q]
             /\ ~BuyOccupied(orders', ord.buyPrice, baseStep)]_vars

(***************************************************************************)
(* C28: within one bot no two executions of the tick handler               *)
(* on_price_update overlap, also when the ticks are delivered by the       *)
(* aggregator's task-per-event dispatch: of the tasks the market reader    *)
(* created for one callback, at most one has started and not finished.     *)
(* (startTradeStream awaits each call of onPrice before it reads the next  *)
(* trade, which OnPriceUpdate states by its guard tick.pc = "idle".)       *)
(***************************************************************************)
\* The executions of callback cb on market ticks that are under way.
TickExecutions(cb) ==
    {i \in 1..Len(cbTasks) : /\ cbTasks[i].cb = cb
                             /\ cbTasks[i].key \in MarketKeys
                             /\ cbTasks[i].pc = "suspended"}

C28_TickHandlersSerial ==
    \A cb \in AggCallbacks : Cardinality(TickExecutions(cb)) <= 1

(***************************************************************************)
(* C29: a strategy's order book is written only by its own tick handler    *)
(* and order-update handler; no other task adds, removes or changes an     *)
(* entry. For the admin's panic_close call: no step of panic_close changes *)
(* the order book.                                                         *)
(***************************************************************************)
C29_OnlyHandlersWriteBook ==
    [][panic' # panic => orders' = orders]_vars

(***************************************************************************)
(* C30: on a fresh start with the price inside the grid and a base-asset   *)
(* shortfall that the quote balance covers, initialize market-buys the     *)
(* shortfall and then continues to completion: a start_bot call whose      *)
(* initialize issued the bootstrap market buy returns True with the        *)
(* strategy running (start() has run, which snapshots the initial equity). *)
(***************************************************************************)
C30_BootstrapThenRunning ==
    \A c \in DOMAIN start_calls :
        start_calls[c].pc = "returned" /\ start_calls[c].bootBuy
            => start_calls[c].ret = "true" /\ strategy_running[c]

(***************************************************************************)
(* C31: if at initialisation the free quote balance is below               *)
(* investment_per_grid * grid_count * 1.002, the strategy does not start   *)
(* running (and so places no orders): a start_bot call whose initialize    *)
(* read such a balance leaves the strategy not running.                    *)
(***************************************************************************)
C31_LowBalanceNoStart ==
    \A c \in Calls :
        start_calls[c].pc = "returned" /\ start_calls[c].lowBalance
            => ~strategy_running[c]

(***************************************************************************)
(* C32: in every reachable state 0 <= martin_level <= max_martin_levels,   *)
(* for any sequence of BUY placements under any investment multipliers.    *)
(***************************************************************************)
C32_MartinLevelBounded ==
    martinLevel >= 0 /\ martinLevel <= maxMartinLevels

(***************************************************************************)
(* C33: getFreeBalance never returns a value taken from a snapshot whose   *)
(* last update is older than BALANCE_STALE_TIMEOUT, whatever the outcome   *)
(* of the refresh request.                                                 *)
(***************************************************************************)
C33_NoStaleBalance ==
    fb.pc = "returned" /\ fb.cached => fb.retAge <= BALANCE_STALE_TIMEOUT

\* C34: the confirmed regime switches to a non-danger regime T only at an
\* evaluation whose raw regime is T and whose immediately preceding
\* evaluation's raw regime was T as well; any evaluation with another raw
\* regime in between, a danger regime equal to the confirmed one included,
\* discards the progress towards T.
C34_SwitchNeedsConsecutive ==
    (/\ ~lastEval.short
     /\ lastEval.state # lastEval.prev
     /\ lastEval.state \notin DANGER_STATES)
        => lastEval.raw = lastEval.state /\ prevRaw = lastEval.state

\* C35: every GridAdjustment analyze emits has a density multiplier within
\* [0.5, 2.0] and an investment multiplier within [0.2, 2.0], whatever the
\* regime, the macro trend, the ATR ratio, the suggested step and the position
\* ratio in [0, 1].
C35_MultipliersClamped ==
    emitted.called =>
        /\ emitted.densityMultiplier >= 500 /\ emitted.densityMultiplier <= 2000
        /\ emitted.investmentMultiplier >= 200 /\ emitted.investmentMultiplier <= 2000

(***************************************************************************)
(* Claims about the retry wrapper, checked under SpecRetryLive.            *)
(***************************************************************************)
\* A failure the wrapper retries up to the last attempt: an API error with a
\* retryable code, or an exception of the network clause.
TransientOrNetwork(out) ==
    \/ out.cls \in ApiErrorClasses /\ classifyError(out.code) = "retryable"
    \/ out.cls \in NetworkErrorClasses

AllAttemptsTransient ==
    \A i \in 1..Len(retry.log) : TransientOrNetwork(retry.log[i])

RetryBounded ==
    retry.op # "none" =>
        /\ retry.calls <= maxRetries(retry.op)
        /\ retry.calls = Len(retry.log)
        /\ retry.pc = "returned" =>
              /\ retry.log[Len(retry.log)] = Returned
              /\ \A i \in 1..(Len(retry.log) - 1) : retry.log[i] # Returned
        /\ retry.pc = "raised" /\ AllAttemptsTransient =>
              /\ retry.calls = maxRetries(retry.op)
              /\ retry.raised = retry.log[Len(retry.log)]

\* C36: a retry-wrapped operation is invoked at most maxRetries times; the
\* wrapper returns the first successful result, and when every attempt fails
\* with a transient API error or a network error it ends by raising the last
\* of these errors. A call in progress always ends, returning or raising.
C36_BoundedRetries ==
    /\ []RetryBounded
    /\ (retry.pc \in {"calling", "syncing", "sleeping"})
          ~> (retry.pc \in {"returned", "raised"})

\* A call that used all its attempts on transient failures, a network error
\* among them, and raised the last one.
C36_Witness ==
    /\ retry.pc = "raised"
    /\ retry.calls = maxRetries(retry.op)
    /\ AllAttemptsTransient
    /\ \E i \in 1..Len(retry.log) : retry.log[i].cls \in NetworkErrorClasses
    /\ \E i \in 1..Len(retry.log) : retry.log[i].cls \in ApiErrorClasses
    /\ retry.raised = retry.log[Len(retry.log)]

\* C37: every limit order the strategy submitted that is still open on the
\* exchange has an entry in the order book. A PENDING entry is the record of
\* an open order, so a step may only leave it as it is, mark it FILLED on its
\* fill, or delete it on its own CANCELED event: it is never replaced by the
\* record of a later order under the same price key, nor removed otherwise.
C37_LiveOrderKeepsEntry ==
    [][\A p \in DOMAIN orders :
          orders[p].status = "PENDING" =>
              \/ p \in DOMAIN orders' /\ orders'[p] = orders[p]
              \/ p \in DOMAIN orders' /\ orders'[p] = [orders[p] EXCEPT !.status = "FILLED"]
              \/ OrderCanceled(p)]_vars

\* The number of registered bots that were auto-assigned proxy p.
AutoAssigned(p) ==
    Cardinality({b \in Bots : IsActive(b) /\ active_bots[b].is_auto_proxy
                                /\ active_bots[b].proxy = p})

\* C38: for every proxy of the pool the load count equals the number of
\* active bots that were auto-assigned that proxy; with no start_bot call in
\* progress, so in particular after a call that returned false, the count
\* holds nothing for the calls that did not register a bot.
C38_ProxyLoadMatches ==
    (\A c \in Calls : start_calls[c].pc \in {"unused", "returned"})
        => \A p \in ProxyPool : pool[p] = AutoAssigned(p)

\* C39: a bot whose start_bot call was in progress, not yet registered in
\* active_bots, when a HALT_ALL message was handled is not running once both
\* stop_all_bots and that start_bot call have completed.
C39_HaltCoversStarting ==
    \A c \in halt.starting :
        halt.pc \in {"broadcast", "alerted"} /\ start_calls[c].pc = "returned"
            => /\ ~strategy_running[c]
               /\ tasks[c].pc \in {"none", "done"}

\* C40: whenever a key is present in a registry with at least one callback,
\* the reader task the entry holds is alive: a reader that ended on an error
\* does not leave its key registered, so no subscription is attached to a
\* dead reader.
C40_RegisteredReaderAlive ==
    \A k \in AggKeys :
        Registry(k)[k].present /\ Registry(k)[k].callbacks # {}
            => readers[Registry(k)[k].task].pc \in {"created", "reading"}

====
